---- MODULE Spec2Model ----
(***************************************************************************)
(* A model of go-manus' agent runtime: the Message/Memory model            *)
(* (package schema), the BaseAgent run loop and stuck detector, the        *)
(* ReActAgent step and the ToolCallAgent think/act pair (package agent),   *)
(* and the PlanningTool with its plan files (package tool) as the          *)
(* PlanningFlow (package flow) calls it.                                   *)
(*                                                                         *)
(* Go strings are modelled as sequences of tokens ("" is <<>>, and         *)
(* concatenation is \o); a *string is a sequence of length 0 (nil) or 1    *)
(* (a pointer to the string).                                              *)
(***************************************************************************)
EXTENDS Integers, Sequences, FiniteSets, TLC

\* ------------------------------------------------------------------ bounds
\* Largest Memory capacity (Memory.MaxMessages) the model configures.
MaxCapacity == 3
\* Largest Memory capacity of the agent in Spec and SpecConc.
AgentCapacity == 2
\* Largest BaseAgent.DuplicateThreshold the model configures.
MaxThreshold == 2
\* Largest BaseAgent.MaxSteps the model configures.
MaxStepsBound == 2
\* Number of appends a behaviour of SpecMem performs at most.
MaxAppends == 5
\* Number of model consultations (Think calls) a behaviour performs at most.
MaxThinks == 2
\* Largest number of steps of a plan.
MaxPlanSteps == 2

VARIABLES
    \* schema.Memory
    Messages,            \* Memory.Messages
    MaxMessages,         \* Memory.MaxMessages
    \* agent.BaseAgent
    State,               \* BaseAgent.State
    CurrentStep,         \* BaseAgent.CurrentStep
    MaxSteps,            \* BaseAgent.MaxSteps
    DuplicateThreshold,  \* BaseAgent.DuplicateThreshold
    NextStepPrompt,      \* BaseAgent.NextStepPrompt
    \* agent.ToolCallAgent
    ToolCalls,           \* ToolCallAgent.ToolCalls
    ToolChoices,         \* ToolCallAgent.ToolChoices
    \* the goroutines calling into the agent
    pc,                  \* per goroutine: its position inside BaseAgent.Run
    request,             \* per goroutine: Run's request parameter
    results,             \* per goroutine: Run's local results slice
    ret,                 \* per goroutine: what its last call returned
    \* history
    appended,            \* every message handed to AddMessage(s), in order
    thinkCount,          \* number of ToolCallAgent.Think invocations so far
    stuckResult,         \* what the last IsStuck call returned (<<>>: none yet)
    actLog,              \* what the Act of the current Think/Act pair did, in order
    \* the model backend behind LLM.AskTool
    backend,             \* how the backend answers a consultation
    \* tool.PlanningTool
    plans,               \* PlanningTool.plans
    activePlan,          \* PlanningTool.activePlan
    files,               \* the plan files under PlanningTool.storageDir
    planRet,             \* what the last PlanningTool call returned
    \* flow.PlanningFlow
    primaryAgentKey,     \* FlowBase.primaryAgentKey
    activePlanID,        \* PlanningFlow.activePlanID
    flowPc,              \* the position of the goroutine inside PlanningFlow.Execute
    flowPlanID,          \* Execute's local planID
    flowStepIndex,       \* Execute's local stepIndex (0 - 1 is nil)
    flowResult,          \* Execute's local result builder, as its lines
    flowRet,             \* what the last Execute returned
    started,             \* history: the step indexes handed to executor.Run by this Execute
    executes,            \* history: number of Execute calls so far
    \* sync.RWMutex
    mu                   \* BaseAgent.mu: the goroutines holding its read lock

planVars == <<plans, activePlan, files, planRet>>
flowVars == <<primaryAgentKey, activePlanID, flowPc, flowPlanID, flowStepIndex, flowResult,
              flowRet, started, executes>>

vars == <<Messages, MaxMessages, State, CurrentStep, MaxSteps, DuplicateThreshold,
          NextStepPrompt, ToolCalls, ToolChoices, pc, request, results, ret,
          appended, thinkCount, stuckResult, actLog, backend, planVars, flowVars, mu>>

memVars == <<Messages, MaxMessages>>
agentVars == <<State, CurrentStep, MaxSteps, DuplicateThreshold, NextStepPrompt,
               ToolCalls, ToolChoices>>
callVars == <<pc, request, results, ret>>

\* ------------------------------------------------------- schema: messages
RoleSystem == "system"
RoleUser == "user"
RoleAssistant == "assistant"
RoleTool == "tool"

AgentStateIDLE == "IDLE"
AgentStateRUNNING == "RUNNING"
AgentStateFINISHED == "FINISHED"
AgentStateERROR == "ERROR"

\* A Message; Content, Name and ToolCallID are Go pointers (<<>> is nil).
Message(role, content, toolCalls, name, toolCallID) ==
    [Role |-> role, Content |-> content, ToolCalls |-> toolCalls,
     Name |-> name, ToolCallID |-> toolCallID]

NewUserMessage(content) == Message(RoleUser, <<content>>, <<>>, <<>>, <<>>)

NewSystemMessage(content) == Message(RoleSystem, <<content>>, <<>>, <<>>, <<>>)

NewAssistantMessage(content) == Message(RoleAssistant, <<content>>, <<>>, <<>>, <<>>)

NewToolMessage(content, name, toolCallID) ==
    Message(RoleTool, <<content>>, <<>>, <<name>>, <<toolCallID>>)

NewMessageFromToolCalls(content, toolCalls) ==
    Message(RoleAssistant, IF content # <<>> THEN <<content>> ELSE <<>>,
            toolCalls, <<>>, <<>>)

\* --------------------------------------------------------- schema: Memory
\* Go's s[from:]: the elements of s after the first `from`.
SliceFrom(s, from) == SubSeq(s, from + 1, Len(s))

\* Memory.AddMessages with the capacity check reading the length before the append.
AddMessages_checkBeforeAppend(messages, maxMessages, msgs) ==
    IF Len(messages) > maxMessages
    THEN SliceFrom(messages \o msgs, Len(messages \o msgs) - maxMessages)
    ELSE messages \o msgs

\* Memory.AddMessages: the new value of Memory.Messages.
AddMessages(messages, maxMessages, msgs) ==
    LET all == messages \o msgs
    IN  IF Len(all) > maxMessages
        THEN SliceFrom(all, Len(all) - maxMessages)
        ELSE all

\* Memory.AddMessage keeping the oldest messages instead of the newest.
AddMessage_keepOldest(messages, maxMessages, msg) ==
    IF Len(messages) + 1 > maxMessages
    THEN SubSeq(Append(messages, msg), 1, maxMessages)
    ELSE Append(messages, msg)

\* Memory.AddMessage: the new value of Memory.Messages.
AddMessage(messages, maxMessages, msg) ==
    LET all == Append(messages, msg)
    IN  IF Len(all) > maxMessages
        THEN SliceFrom(all, Len(all) - maxMessages)
        ELSE all

\* ------------------------------------------------------ BaseAgent.IsStuck
RECURSIVE ScanDuplicates(_, _, _, _, _)
\* The backward loop of IsStuck, at index i (1-based) with duplicateCount = count.
ScanDuplicates(messages, lastMsg, threshold, i, count) ==
    IF i < 1
    THEN FALSE
    ELSE LET msg == messages[i]
             same == /\ msg.Role = RoleAssistant
                     /\ msg.Content # <<>>
                     /\ msg.Content[1] = lastMsg.Content[1]
         IN  IF same /\ count + 1 >= threshold
             THEN TRUE
             ELSE ScanDuplicates(messages, lastMsg, threshold, i - 1,
                                 IF same THEN count + 1 ELSE count)

\* IsStuck counting the last message itself as a duplicate.
IsStuck_countsLast(messages, threshold) ==
    /\ Len(messages) >= 2
    /\ messages[Len(messages)].Content # <<>>
    /\ ScanDuplicates(messages, messages[Len(messages)], threshold, Len(messages), 0)

\* BaseAgent.IsStuck.
IsStuck(messages, threshold) ==
    IF Len(messages) < 2
    THEN FALSE
    ELSE LET lastMsg == messages[Len(messages)]
         IN  IF lastMsg.Content = <<>>
             THEN FALSE
             ELSE ScanDuplicates(messages, lastMsg, threshold, Len(messages) - 1, 0)

\* -------------------------------------------- SpecMem: Memory on its own
\* The messages SpecMem appends: both non-assistant roles, and empty content.
MsgPool ==
    { NewAssistantMessage(<<"x">>),
      NewAssistantMessage(<<>>),
      NewUserMessage(<<"x">>),
      NewToolMessage(<<"x">>, "echo", 1) }

\* The batches SpecMem hands to AddMessages: up to two messages.
BatchPool == {<<>>} \cup {<<m>> : m \in MsgPool}
                    \cup {<<m, n>> : m \in MsgPool, n \in {NewAssistantMessage(<<"x">>),
                                                          NewUserMessage(<<"x">>)}}

Threads == {1, 2}

\* NewPlanningTool over an empty storage directory.
InitNoPlans ==
    /\ plans = <<>>
    /\ activePlan = ""
    /\ files = <<>>
    /\ planRet = [op |-> "none", Output |-> <<>>, Error |-> <<>>]

\* No PlanningFlow has run.
InitNoFlow ==
    /\ primaryAgentKey = "manus"
    /\ activePlanID = ""
    /\ flowPc = "idle"
    /\ flowPlanID = ""
    /\ flowStepIndex = 0 - 1
    /\ flowResult = ""
    /\ flowRet = [op |-> "none", err |-> "nil", val |-> ""]
    /\ started = <<>>
    /\ executes = 0

InitAgent ==
    /\ State = AgentStateIDLE
    /\ CurrentStep = 0
    /\ ToolCalls = <<>>
    /\ pc = [t \in Threads |-> "idle"]
    /\ request = [t \in Threads |-> <<>>]
    /\ results = [t \in Threads |-> <<>>]
    /\ ret = [t \in Threads |-> [op |-> "none", err |-> "nil", val |-> <<>>]]
    /\ thinkCount = 0
    /\ actLog = <<>>
    /\ mu = {}

InitMem ==
    /\ Messages = <<>>
    /\ MaxMessages \in 1..MaxCapacity
    /\ DuplicateThreshold \in 1..MaxThreshold
    /\ MaxSteps = 0
    /\ NextStepPrompt = <<>>
    /\ ToolChoices = "auto"
    /\ InitAgent
    /\ appended = <<>>
    /\ stuckResult = <<>>
    /\ backend = "free"
    /\ InitNoPlans
    /\ InitNoFlow

\* A caller appends one message: Memory.AddMessage.
MemAddMessage ==
    /\ Len(appended) < MaxAppends
    /\ \E msg \in MsgPool :
        /\ Messages' = AddMessage(Messages, MaxMessages, msg)
        /\ appended' = Append(appended, msg)
    /\ stuckResult' = <<>>
    /\ UNCHANGED <<MaxMessages, agentVars, callVars, thinkCount, actLog, backend, planVars, flowVars, mu>>

\* A caller appends a batch: Memory.AddMessages.
MemAddMessages ==
    /\ \E msgs \in BatchPool :
        /\ Len(appended) + Len(msgs) <= MaxAppends
        /\ Messages' = AddMessages(Messages, MaxMessages, msgs)
        /\ appended' = appended \o msgs
    /\ stuckResult' = <<>>
    /\ UNCHANGED <<MaxMessages, agentVars, callVars, thinkCount, actLog, backend, planVars, flowVars, mu>>

\* A caller asks the stuck detector: BaseAgent.IsStuck.
MemIsStuck ==
    /\ stuckResult' = <<IsStuck(Messages, DuplicateThreshold)>>
    /\ UNCHANGED <<memVars, agentVars, callVars, appended, thinkCount, actLog, backend,
                   planVars, flowVars, mu>>

NextMem == MemAddMessage \/ MemAddMessages \/ MemIsStuck

SpecMem == InitMem /\ [][NextMem]_vars

\* --------------------------------------------- tool registry and dispatch
\* The names registered in AvailableTools (NewToolCollection); "echo" stands for
\* any registered tool other than the termination tool.
AvailableTools == {"terminate", "echo"}

\* ToolCallAgent.SpecialToolNames as NewToolCallAgent sets it.
SpecialToolNames == {"terminate"}

\* What a registered tool's Execute may do: return an Output, return a result
\* with Error set, or return a Go error.
ToolOutcomes == {"output", "error_result", "exec_error"}

\* Terminate.Execute: always an Output.
Terminate_Execute == [Output |-> <<"The interaction has been completed with status: success">>,
                      Error |-> <<>>, err |-> "nil"]

\* ToolCollection.Execute: an unregistered name yields an error result, never an error.
ToolCollection_Execute(name, outcome) ==
    IF name \notin AvailableTools
    THEN [Output |-> <<>>, Error |-> <<"Tool ", name, " is invalid">>, err |-> "nil"]
    ELSE IF name = "terminate"
    THEN Terminate_Execute
    ELSE CASE outcome = "output" -> [Output |-> <<"out">>, Error |-> <<>>, err |-> "nil"]
           [] outcome = "error_result" -> [Output |-> <<>>, Error |-> <<"failed">>, err |-> "nil"]
           [] OTHER -> [Output |-> <<>>, Error |-> <<>>, err |-> "exec failed"]

\* ToolCallAgent.ExecuteTool losing the text of a tool's Go error.
ExecuteTool_dropsExecError(toolCall, outcome) ==
    IF toolCall.Name = ""
    THEN <<"Error: Invalid command format">>
    ELSE IF toolCall.Arguments = "bad"
    THEN <<"Error parsing arguments for ", toolCall.Name, ": Invalid JSON format">>
    ELSE LET result == ToolCollection_Execute(toolCall.Name, outcome)
         IN  IF result.err # "nil"
             THEN <<>>
             ELSE IF result.Error # <<>>
             THEN <<"Error: ">> \o result.Error
             ELSE <<"Observed output of cmd ", toolCall.Name, " executed:">>
                      \o result.Output

\* ToolCallAgent.ExecuteTool: the observation string; its error is always nil.
ExecuteTool(toolCall, outcome) ==
    IF toolCall.Name = ""
    THEN <<"Error: Invalid command format">>
    ELSE IF toolCall.Arguments = "bad"
    THEN <<"Error parsing arguments for ", toolCall.Name, ": Invalid JSON format">>
    ELSE LET result == ToolCollection_Execute(toolCall.Name, outcome)
         IN  IF result.err # "nil"
             THEN <<"Tool '", toolCall.Name, "' encountered a problem: ", result.err>>
             ELSE IF result.Error # <<>>
             THEN <<"Error: ">> \o result.Error
             ELSE <<"Observed output of cmd ", toolCall.Name, " executed:">>
                      \o result.Output

\* ToolCallAgent.isSpecialTool.
isSpecialTool(name) == name \in SpecialToolNames

\* ToolCallAgent.shouldFinishExecution.
shouldFinishExecution(name, result) == TRUE

\* ------------------------------------------------------ ToolCallAgent.Think
\* What the model may propose in one completion: a batch of (name, arguments).
Call(name, arguments) == [Name |-> name, Arguments |-> arguments]

BatchTemplates ==
    { <<>>,
      <<Call("terminate", "ok")>>,
      <<Call("terminate", "bad")>>,
      <<Call("terminate", "ok"), Call("echo", "ok")>>,
      <<Call("foo", "ok"), Call("echo", "bad")>> }

\* The largest batch above; call ids are thinkCount * MaxBatch + position.
MaxBatch == 2

\* The completions LLM.AskTool may return, and its failure.
Responses ==
    [err : {FALSE}, Content : {<<>>, <<"x">>}, ToolCalls : BatchTemplates]
        \cup {[err |-> TRUE, Content |-> <<>>, ToolCalls |-> <<>>]}

\* The backends the model considers, by how they answer: "free" answers anything;
\* "terminates" proposes the termination tool; "silent" answers without tool calls
\* and never fails; "fails" fails; "unknownTool" proposes an unregistered tool.
Backends == {"free", "terminates", "silent", "fails", "unknownTool"}

\* LLM.AskTool: the completions the backend b may return to a consultation.
AskTool(b) ==
    CASE b = "terminates" ->
            {r \in Responses : ~r.err /\ r.ToolCalls = <<Call("terminate", "ok")>>}
      [] b = "silent" -> {r \in Responses : ~r.err /\ r.ToolCalls = <<>>}
      [] b = "fails" -> {r \in Responses : r.err}
      [] b = "unknownTool" ->
            {r \in Responses : ~r.err /\ r.ToolCalls = <<Call("foo", "ok"), Call("echo", "bad")>>}
      [] OTHER -> Responses

\* The proposed calls as schema.ToolCall values with fresh ids.
WithIDs(batch, seq) ==
    [k \in 1..Len(batch) |->
        [ID |-> seq * MaxBatch + k, Type |-> "function",
         Name |-> batch[k].Name, Arguments |-> batch[k].Arguments]]

\* Think's return value with the policy test left out: the proposed calls decide
\* under every policy.
ThinkDecision_ignoresPolicy(toolChoices, content, toolCalls) ==
    IF Len(toolCalls) = 0 THEN content # <<>> ELSE TRUE

\* Think's return value after a successful model call.
ThinkDecision(toolChoices, content, toolCalls) ==
    IF toolChoices = "none"
    THEN content # <<>>
    ELSE IF toolChoices = "required" /\ Len(toolCalls) = 0
    THEN TRUE
    ELSE IF toolChoices = "auto" /\ Len(toolCalls) = 0
    THEN content # <<>>
    ELSE Len(toolCalls) > 0

\* ToolCallAgent.Think, called on the agent by goroutine 1 between Runs.
Think ==
    /\ pc[1] = "idle"
    /\ thinkCount < MaxThinks
    /\ \E resp \in AskTool(backend) :
        LET prompted == IF NextStepPrompt # <<>>
                        THEN AddMessage(Messages, MaxMessages, NewUserMessage(NextStepPrompt))
                        ELSE Messages
            calls == WithIDs(resp.ToolCalls, thinkCount)
            assistantMsg == IF Len(calls) > 0
                            THEN NewMessageFromToolCalls(resp.Content, calls)
                            ELSE NewAssistantMessage(resp.Content)
        IN  IF resp.err
            THEN /\ Messages' = AddMessage(prompted, MaxMessages,
                        NewAssistantMessage(<<"Error encountered while processing: ", "llm error">>))
                 /\ ToolCalls' = ToolCalls
                 /\ ret' = [ret EXCEPT ![1] = [op |-> "Think", err |-> "LLMError", val |-> <<FALSE>>]]
            ELSE /\ Messages' = AddMessage(prompted, MaxMessages, assistantMsg)
                 /\ ToolCalls' = calls
                 /\ ret' = [ret EXCEPT ![1] =
                        [op |-> "Think", err |-> "nil",
                         val |-> <<ThinkDecision(ToolChoices, resp.Content, calls)>>]]
    /\ thinkCount' = thinkCount + 1
    /\ actLog' = <<>>
    /\ UNCHANGED <<MaxMessages, State, CurrentStep, MaxSteps, DuplicateThreshold,
                   NextStepPrompt, ToolChoices, pc, request, results, appended, stuckResult,
                   backend, planVars, flowVars, mu>>

\* -------------------------------------------------------- ToolCallAgent.Act
\* The entries of actLog: a call was handed to ExecuteTool, which met the tool
\* outcome and returned result; a tool message was appended to Memory.
Executed(toolCall, outcome, result) ==
    [ev |-> "execute", id |-> toolCall.ID, outcome |-> outcome, result |-> result]
Appended(toolCall, msg) ==
    [ev |-> "append", id |-> toolCall.ID, msg |-> msg]

RECURSIVE ActLoop_lastFirst(_, _, _, _, _, _, _)
\* The loop of Act taking the calls last first: its i-th round handles the i-th
\* call from the end.
ActLoop_lastFirst(toolCalls, outcomes, i, messages, state, res, log) ==
    IF i > Len(toolCalls)
    THEN [Messages |-> messages, State |-> state, results |-> res, log |-> log]
    ELSE LET at == Len(toolCalls) - i + 1
             toolCall == toolCalls[at]
             result == ExecuteTool(toolCall, outcomes[at])
             toolMsg == NewToolMessage(result, toolCall.Name, toolCall.ID)
             finish == /\ isSpecialTool(toolCall.Name)
                       /\ shouldFinishExecution(toolCall.Name, result)
         IN  ActLoop_lastFirst(toolCalls, outcomes, i + 1,
                     AddMessage(messages, MaxMessages, toolMsg),
                     IF finish THEN AgentStateFINISHED ELSE state,
                     Append(res, result),
                     log \o <<Executed(toolCall, outcomes[at], result),
                               Appended(toolCall, toolMsg)>>)

RECURSIVE ActLoop_stopsWhenFinished(_, _, _, _, _, _, _)
\* The loop of Act leaving the batch once a special tool has finished the run.
ActLoop_stopsWhenFinished(toolCalls, outcomes, i, messages, state, res, log) ==
    IF i > Len(toolCalls)
    THEN [Messages |-> messages, State |-> state, results |-> res, log |-> log]
    ELSE LET toolCall == toolCalls[i]
             result == ExecuteTool(toolCall, outcomes[i])
             toolMsg == NewToolMessage(result, toolCall.Name, toolCall.ID)
             finish == /\ isSpecialTool(toolCall.Name)
                       /\ shouldFinishExecution(toolCall.Name, result)
         IN  ActLoop_stopsWhenFinished(toolCalls, outcomes,
                     IF finish THEN Len(toolCalls) + 1 ELSE i + 1,
                     AddMessage(messages, MaxMessages, toolMsg),
                     IF finish THEN AgentStateFINISHED ELSE state,
                     Append(res, result),
                     log \o <<Executed(toolCall, outcomes[i], result),
                               Appended(toolCall, toolMsg)>>)

RECURSIVE ActLoop(_, _, _, _, _, _, _)
\* The loop of Act over a.ToolCalls from position i: each call is executed, its
\* result appended to Memory as a tool message, and a special tool finishes the run.
ActLoop(toolCalls, outcomes, i, messages, state, res, log) ==
    IF i > Len(toolCalls)
    THEN [Messages |-> messages, State |-> state, results |-> res, log |-> log]
    ELSE LET toolCall == toolCalls[i]
             result == ExecuteTool(toolCall, outcomes[i])
             toolMsg == NewToolMessage(result, toolCall.Name, toolCall.ID)
             finish == /\ isSpecialTool(toolCall.Name)
                       /\ shouldFinishExecution(toolCall.Name, result)
         IN  ActLoop(toolCalls, outcomes, i + 1,
                     AddMessage(messages, MaxMessages, toolMsg),
                     IF finish THEN AgentStateFINISHED ELSE state,
                     Append(res, result),
                     log \o <<Executed(toolCall, outcomes[i], result),
                               Appended(toolCall, toolMsg)>>)

\* strings.Join(results, "\n\n"): the results with a separator token between them.
RECURSIVE JoinBlank(_)
JoinBlank(res) ==
    IF res = <<>> THEN <<>>
    ELSE IF Len(res) = 1 THEN res[1]
    ELSE res[1] \o <<"\n\n">> \o JoinBlank(Tail(res))

\* Act with no pending calls and the policy left out: never an error.
ActWithoutCalls_ignoresPolicy(toolChoices, messages) ==
    IF Len(messages) > 0 /\ messages[Len(messages)].Content # <<>>
    THEN [op |-> "Act", err |-> "nil", val |-> messages[Len(messages)].Content[1]]
    ELSE [op |-> "Act", err |-> "nil", val |-> <<"No content or commands to execute">>]

\* Act with no pending calls: what it returns.
ActWithoutCalls(toolChoices, messages) ==
    IF toolChoices = "required"
    THEN [op |-> "Act", err |-> "ToolCallsRequired", val |-> <<>>]
    ELSE IF Len(messages) > 0 /\ messages[Len(messages)].Content # <<>>
    THEN [op |-> "Act", err |-> "nil", val |-> messages[Len(messages)].Content[1]]
    ELSE [op |-> "Act", err |-> "nil", val |-> <<"No content or commands to execute">>]

\* ToolCallAgent.Act, called by goroutine 1.
ActBody ==
    /\ pc[1] = "idle"
    /\ IF Len(ToolCalls) = 0
       THEN /\ ret' = [ret EXCEPT ![1] = ActWithoutCalls(ToolChoices, Messages)]
            /\ actLog' = <<>>
            /\ UNCHANGED <<Messages, State>>
       ELSE \E outcomes \in [1..Len(ToolCalls) -> ToolOutcomes] :
                LET out == ActLoop(ToolCalls, outcomes, 1, Messages, State, <<>>, <<>>)
                IN  /\ Messages' = out.Messages
                    /\ State' = out.State
                    /\ actLog' = out.log
                    /\ ret' = [ret EXCEPT ![1] =
                            [op |-> "Act", err |-> "nil", val |-> JoinBlank(out.results)]]
    /\ UNCHANGED <<MaxMessages, CurrentStep, MaxSteps, DuplicateThreshold, NextStepPrompt,
                   ToolCalls, ToolChoices, pc, request, results, appended, thinkCount,
                   stuckResult, backend, planVars, flowVars, mu>>

\* ToolCallAgent.Act, called on the agent by goroutine 1 after a Think that
\* returned true.
Act ==
    /\ ret[1].op = "Think" /\ ret[1].err = "nil" /\ ret[1].val = <<TRUE>>
    /\ ActBody

\* Act called by a caller of its own accord, whatever Memory holds.
ActDirect == ActBody

\* ------------------------------------------------- ReActAgent, BaseAgent.Step
\* BaseAgent.Step: the method BaseAgent.Run calls on its *BaseAgent receiver.
BaseAgent_Step == [err |-> "StepNotImplemented", val |-> <<>>]

\* ReActAgent.Think: the method ReActAgent.Step calls on its *ReActAgent receiver.
ReActAgent_Think == [shouldAct |-> FALSE, err |-> "nil"]

\* ReActAgent.Act.
ReActAgent_Act == [err |-> "nil", val |-> <<>>]

\* ReActAgent.Step, which a ToolCallAgent inherits: Think, then Act if Think said
\* so, both called on the *ReActAgent receiver.
ReActAgent_Step ==
    LET t == ReActAgent_Think
    IN  IF t.err # "nil" THEN [err |-> t.err, val |-> <<>>]
        ELSE IF ~t.shouldAct
        THEN [err |-> "nil", val |-> <<"Thinking complete - no action needed">>]
        ELSE ReActAgent_Act

\* ------------------------------------------------------------ BaseAgent.Run
\* The requests a caller passes to Run: empty, or a prompt.
Requests == {<<>>, <<"do X">>}

\* Run's precondition with the comparison inverted for the error state.
RunAdmits_errorToo(state) == state \in {AgentStateIDLE, AgentStateERROR}

\* Run's precondition made to accept an agent left RUNNING by an earlier Run.
RunAdmits_runningToo(state) == state \in {AgentStateIDLE, AgentStateRUNNING}

\* Run's precondition: the state is IDLE.
RunAdmits(state) == state = AgentStateIDLE

\* Run's loop condition with an off-by-one step budget.
RunLoopCondition_offByOne(currentStep, maxSteps, state) ==
    currentStep <= maxSteps /\ state # AgentStateFINISHED

\* Run's loop condition.
RunLoopCondition(currentStep, maxSteps, state) ==
    currentStep < maxSteps /\ state # AgentStateFINISHED

\* BaseAgent.HandleStuckState: the new NextStepPrompt.
HandleStuckState(nextStepPrompt) ==
    <<"Observed duplicate responses. Consider new strategies and avoid repeating ineffective paths already attempted.">>
        \o <<"\n">> \o nextStepPrompt

\* A line of Run's result.
ResultLine(kind, n, text) == [kind |-> kind, n |-> n, text |-> text]

\* Run, entry, for the request req: the state check, which rejects the call or
\* admits it.
RunEnterWith(t, req) ==
    /\ pc[t] = "idle"
    /\ IF ~RunAdmits(State)
       THEN /\ ret' = [ret EXCEPT ![t] = [op |-> "Run", err |-> "InvalidState", val |-> <<>>]]
            /\ UNCHANGED <<pc, request, results>>
       ELSE /\ pc' = [pc EXCEPT ![t] = "append"]
            /\ request' = [request EXCEPT ![t] = req]
            /\ results' = [results EXCEPT ![t] = <<>>]
            /\ ret' = [ret EXCEPT ![t] = [op |-> "Run", err |-> "running", val |-> <<>>]]
    /\ UNCHANGED <<memVars, agentVars, appended, thinkCount, stuckResult, actLog, backend,
                   planVars, flowVars, mu>>

\* Run called with one of the requests.
RunEnter(t) == \E req \in Requests : RunEnterWith(t, req)

\* Run: a non-empty request is appended as a user message (UpdateMemory).
RunAppend(t) ==
    /\ pc[t] = "append"
    /\ request[t] # <<>> => mu = {}
    /\ Messages' = IF request[t] # <<>>
                   THEN AddMessage(Messages, MaxMessages, NewUserMessage(request[t]))
                   ELSE Messages
    /\ pc' = [pc EXCEPT ![t] = "setRunning"]
    /\ UNCHANGED <<MaxMessages, agentVars, request, results, ret, appended, thinkCount,
                   stuckResult, actLog, backend, planVars, flowVars, mu>>

\* Run: a.State = RUNNING.
RunSetRunning(t) ==
    /\ pc[t] = "setRunning"
    /\ State' = AgentStateRUNNING
    /\ pc' = [pc EXCEPT ![t] = "loop"]
    /\ UNCHANGED <<memVars, CurrentStep, MaxSteps, DuplicateThreshold, NextStepPrompt,
                   ToolCalls, ToolChoices, request, results, ret, appended, thinkCount,
                   stuckResult, actLog, backend, planVars, flowVars, mu>>

\* Run: the loop condition is evaluated.
RunLoop(t) ==
    /\ pc[t] = "loop"
    /\ pc' = [pc EXCEPT ![t] =
            IF RunLoopCondition(CurrentStep, MaxSteps, State) THEN "incr" ELSE "finish"]
    /\ UNCHANGED <<memVars, agentVars, request, results, ret, appended, thinkCount,
                   stuckResult, actLog, backend, planVars, flowVars, mu>>

\* Run: a.CurrentStep++.
RunIncr(t) ==
    /\ pc[t] = "incr"
    /\ CurrentStep' = CurrentStep + 1
    /\ pc' = [pc EXCEPT ![t] = "step"]
    /\ UNCHANGED <<memVars, State, MaxSteps, DuplicateThreshold, NextStepPrompt,
                   ToolCalls, ToolChoices, request, results, ret, appended, thinkCount,
                   stuckResult, actLog, backend, planVars, flowVars, mu>>

\* Run: a.Step(ctx) and what follows it in the loop body. A failed step sets the
\* state to ERROR and returns; otherwise the stuck detector runs and the step's
\* line is recorded.
RunStep(t) ==
    /\ pc[t] = "step"
    /\ LET step == BaseAgent_Step
       IN  IF step.err # "nil"
           THEN /\ State' = AgentStateERROR
                /\ ret' = [ret EXCEPT ![t] = [op |-> "Run", err |-> step.err, val |-> <<>>]]
                /\ pc' = [pc EXCEPT ![t] = "idle"]
                /\ UNCHANGED <<NextStepPrompt, results>>
           ELSE /\ NextStepPrompt' = IF IsStuck(Messages, DuplicateThreshold)
                                     THEN HandleStuckState(NextStepPrompt)
                                     ELSE NextStepPrompt
                /\ results' = [results EXCEPT ![t] =
                        Append(@, ResultLine("Step", CurrentStep, step.val))]
                /\ pc' = [pc EXCEPT ![t] = "loop"]
                /\ UNCHANGED <<State, ret>>
    /\ UNCHANGED <<memVars, CurrentStep, MaxSteps, DuplicateThreshold, ToolCalls,
                   ToolChoices, request, appended, thinkCount, stuckResult, actLog,
                   backend, planVars, flowVars, mu>>

\* Run's return made to leave the agent ready for another Run.
RunFinish_resetsState(t) ==
    /\ pc[t] = "finish"
    /\ LET res == IF CurrentStep >= MaxSteps
                  THEN Append(results[t], ResultLine("Terminated: Reached max steps", MaxSteps, <<>>))
                  ELSE results[t]
       IN  ret' = [ret EXCEPT ![t] =
                [op |-> "Run", err |-> "nil",
                 val |-> IF Len(res) = 0
                         THEN <<ResultLine("No steps executed", 0, <<>>)>>
                         ELSE res]]
    /\ pc' = [pc EXCEPT ![t] = "idle"]
    /\ State' = AgentStateIDLE
    /\ CurrentStep' = 0
    /\ UNCHANGED <<memVars, MaxSteps, DuplicateThreshold, NextStepPrompt, ToolCalls,
                   ToolChoices, request, results, appended, thinkCount, stuckResult,
                   actLog, backend, planVars, flowVars, mu>>

\* Run, after the loop: the exhaustion note, the no-steps marker, the return.
RunFinish(t) ==
    /\ pc[t] = "finish"
    /\ LET res == IF CurrentStep >= MaxSteps
                  THEN Append(results[t], ResultLine("Terminated: Reached max steps", MaxSteps, <<>>))
                  ELSE results[t]
       IN  ret' = [ret EXCEPT ![t] =
                [op |-> "Run", err |-> "nil",
                 val |-> IF Len(res) = 0
                         THEN <<ResultLine("No steps executed", 0, <<>>)>>
                         ELSE res]]
    /\ pc' = [pc EXCEPT ![t] = "idle"]
    /\ UNCHANGED <<memVars, agentVars, request, results, appended, thinkCount, stuckResult,
                   actLog, backend, planVars, flowVars, mu>>

\* ------------------------------------------------------- tool.PlanningTool
\* Plan ids, titles, step descriptions and results are Go strings, modelled as
\* TLA+ strings. A Plan's CreatedAt, UpdatedAt and Metadata are left out.
PlanStepNotStarted == "not_started"
PlanStepInProgress == "in_progress"
PlanStepCompleted == "completed"
PlanStepBlocked == "blocked"

PlanStep(description, status, result, error) ==
    [Description |-> description, Status |-> status, Result |-> result, Error |-> error]

Plan(id, title, steps) == [ID |-> id, Title |-> title, Steps |-> steps]

\* An argument map (map[string]interface{}): a function from argument names to
\* values that carry their dynamic Go type.
Str(v) == [type |-> "string", v |-> v]
GoInt(v) == [type |-> "int", v |-> v]
Float64(v) == [type |-> "float64", v |-> v]
List(v) == [type |-> "[]interface{}", v |-> v]
NoArgs == [k \in {} |-> Str("")]

\* The type assertion args[k].(T) and its ok flag.
IsA(args, k, type) == k \in DOMAIN args /\ args[k].type = type
\* args[k].(string) with the zero value "" when the assertion fails.
StringArg(args, k) == IF IsA(args, k, "string") THEN args[k].v ELSE ""

\* m[k] = v on a Go map.
MapPut(m, k, v) == [x \in DOMAIN m \cup {k} |-> IF x = k THEN v ELSE m[x]]
\* delete(m, k) on a Go map.
MapDelete(m, k) == [x \in DOMAIN m \ {k} |-> m[x]]

\* json.MarshalIndent of a PlanStep: result and error are omitempty.
MarshalStep(step) ==
    [f \in {"description", "status"}
            \cup (IF step.Result # "" THEN {"result"} ELSE {})
            \cup (IF step.Error # "" THEN {"error"} ELSE {}) |->
        CASE f = "description" -> step.Description
          [] f = "status" -> step.Status
          [] f = "result" -> step.Result
          [] OTHER -> step.Error]

\* json.Unmarshal into a PlanStep: an absent field keeps its zero value.
UnmarshalStep(js) ==
    PlanStep(js["description"], js["status"],
             IF "result" \in DOMAIN js THEN js["result"] ELSE "",
             IF "error" \in DOMAIN js THEN js["error"] ELSE "")

\* json.MarshalIndent of a Plan, and json.Unmarshal into a Plan.
MarshalPlan(plan) ==
    [id |-> plan.ID, title |-> plan.Title,
     steps |-> [k \in 1..Len(plan.Steps) |-> MarshalStep(plan.Steps[k])]]
UnmarshalPlan(data) ==
    Plan(data.id, data.title, [k \in 1..Len(data.steps) |-> UnmarshalStep(data.steps[k])])

\* The plan ids that hold a path separator: filepath.Join(storageDir, id + ".json")
\* then names a file in a subdirectory of storageDir, which nothing creates.
NestedIDs == {"dir/plan_b"}

\* PlanningTool.savePlan: the files of storageDir after plan was written to
\* <plan.ID>.json. os.WriteFile fails when the file's directory does not exist;
\* the callers of savePlan drop its error.
savePlan(fs, plan) ==
    IF plan.ID \in NestedIDs THEN fs ELSE MapPut(fs, plan.ID, MarshalPlan(plan))

\* PlanningTool.loadPlans: the plan map read from the files of storageDir, each
\* plan under the id found in its file.
loadPlans(fs) ==
    LET loaded == {UnmarshalPlan(fs[f]) : f \in DOMAIN fs}
    IN  [id \in {plan.ID : plan \in loaded} |->
            CHOOSE plan \in loaded : plan.ID = id]

\* A ToolResult of the planning tool.
PlanOutput(op, text) == [op |-> op, Output |-> text, Error |-> <<>>]
PlanError(op, text) == [op |-> op, Output |-> <<>>, Error |-> text]

\* The steps of a new plan with every step created in progress.
NewSteps_inProgress(descriptions) ==
    [k \in 1..Len(descriptions) |-> PlanStep(descriptions[k], PlanStepInProgress, "", "")]

\* The steps createPlan and updatePlan build from a list of descriptions.
NewSteps(descriptions) ==
    [k \in 1..Len(descriptions) |-> PlanStep(descriptions[k], PlanStepNotStarted, "", "")]

\* PlanningTool.createPlan.
createPlan(args) ==
    LET planID == StringArg(args, "plan_id")
        title == StringArg(args, "title")
    IN  IF planID = ""
        THEN /\ planRet' = PlanError("create", <<"plan_id is required for create command">>)
             /\ UNCHANGED <<plans, activePlan, files>>
        ELSE IF title = ""
        THEN /\ planRet' = PlanError("create", <<"title is required for create command">>)
             /\ UNCHANGED <<plans, activePlan, files>>
        ELSE IF ~IsA(args, "steps", "[]interface{}") \/ Len(args["steps"].v) = 0
        THEN /\ planRet' = PlanError("create", <<"steps is required for create command">>)
             /\ UNCHANGED <<plans, activePlan, files>>
        ELSE IF planID \in DOMAIN plans
        THEN /\ planRet' = PlanError("create", <<"Plan with ID ", planID, " already exists">>)
             /\ UNCHANGED <<plans, activePlan, files>>
        ELSE LET plan == Plan(planID, title, NewSteps(args["steps"].v))
             IN  /\ plans' = MapPut(plans, planID, plan)
                 /\ files' = savePlan(files, plan)
                 /\ planRet' = PlanOutput("create",
                        <<"Plan '", title, "' created successfully with ",
                          Len(plan.Steps), " steps">>)
                 /\ UNCHANGED activePlan

\* PlanningTool.updatePlan.
updatePlan(args) ==
    LET planID == StringArg(args, "plan_id")
    IN  IF planID = ""
        THEN /\ planRet' = PlanError("update", <<"plan_id is required for update command">>)
             /\ UNCHANGED <<plans, activePlan, files>>
        ELSE IF planID \notin DOMAIN plans
        THEN /\ planRet' = PlanError("update", <<"Plan with ID ", planID, " not found">>)
             /\ UNCHANGED <<plans, activePlan, files>>
        ELSE LET old == plans[planID]
                 title == IF StringArg(args, "title") # ""
                          THEN StringArg(args, "title") ELSE old.Title
                 steps == IF IsA(args, "steps", "[]interface{}") /\ Len(args["steps"].v) > 0
                          THEN NewSteps(args["steps"].v) ELSE old.Steps
                 plan == Plan(planID, title, steps)
             IN  /\ plans' = MapPut(plans, planID, plan)
                 /\ files' = savePlan(files, plan)
                 /\ planRet' = PlanOutput("update", <<"Plan '", planID, "' updated successfully">>)
                 /\ UNCHANGED activePlan

\* PlanningTool.setActivePlan.
setActivePlan(args) ==
    LET planID == StringArg(args, "plan_id")
    IN  /\ IF planID = ""
           THEN /\ planRet' = PlanError("set_active", <<"plan_id is required for set_active command">>)
                /\ UNCHANGED activePlan
           ELSE IF planID \notin DOMAIN plans
           THEN /\ planRet' = PlanError("set_active", <<"Plan with ID ", planID, " not found">>)
                /\ UNCHANGED activePlan
           ELSE /\ activePlan' = planID
                /\ planRet' = PlanOutput("set_active", <<"Plan '", planID, "' set as active">>)
        /\ UNCHANGED <<plans, files>>

\* PlanningTool.markStep.
markStep(args) ==
    LET planID == IF StringArg(args, "plan_id") = "" THEN activePlan
                  ELSE StringArg(args, "plan_id")
        status == StringArg(args, "status")
    IN  IF planID = ""
        THEN /\ planRet' = PlanError("mark_step", <<"No plan_id provided and no active plan set">>)
             /\ UNCHANGED <<plans, activePlan, files>>
        ELSE IF ~IsA(args, "step_index", "float64")
        THEN /\ planRet' = PlanError("mark_step", <<"step_index is required for mark_step command">>)
             /\ UNCHANGED <<plans, activePlan, files>>
        ELSE IF ~IsA(args, "status", "string")
        THEN /\ planRet' = PlanError("mark_step", <<"status is required for mark_step command">>)
             /\ UNCHANGED <<plans, activePlan, files>>
        ELSE IF status \notin {PlanStepNotStarted, PlanStepInProgress,
                               PlanStepCompleted, PlanStepBlocked}
        THEN /\ planRet' = PlanError("mark_step", <<"Invalid status: ", status>>)
             /\ UNCHANGED <<plans, activePlan, files>>
        ELSE IF planID \notin DOMAIN plans
        THEN /\ planRet' = PlanError("mark_step", <<"Plan with ID ", planID, " not found">>)
             /\ UNCHANGED <<plans, activePlan, files>>
        ELSE LET old == plans[planID]
                 idx == args["step_index"].v
             IN  IF idx < 0 \/ idx >= Len(old.Steps)
                 THEN /\ planRet' = PlanError("mark_step",
                            <<"Invalid step_index: ", idx, " (plan has ", Len(old.Steps), " steps)">>)
                      /\ UNCHANGED <<plans, activePlan, files>>
                 ELSE LET step == old.Steps[idx + 1]
                          marked == PlanStep(step.Description, status,
                                             IF IsA(args, "result", "string")
                                             THEN args["result"].v ELSE step.Result,
                                             step.Error)
                          plan == Plan(old.ID, old.Title, [old.Steps EXCEPT ![idx + 1] = marked])
                      IN  /\ plans' = MapPut(plans, planID, plan)
                          /\ files' = savePlan(files, plan)
                          /\ planRet' = PlanOutput("mark_step",
                                <<"Step ", idx + 1, " marked as ", status>>)
                          /\ UNCHANGED activePlan

\* A delete that leaves the active-plan pointer alone.
deletePlan_keepsActive(args) ==
    LET planID == StringArg(args, "plan_id")
    IN  IF planID = ""
        THEN /\ planRet' = PlanError("delete", <<"plan_id is required for delete command">>)
             /\ UNCHANGED <<plans, activePlan, files>>
        ELSE IF planID \notin DOMAIN plans
        THEN /\ planRet' = PlanError("delete", <<"Plan with ID ", planID, " not found">>)
             /\ UNCHANGED <<plans, activePlan, files>>
        ELSE /\ plans' = MapDelete(plans, planID)
             /\ activePlan' = activePlan
             /\ files' = MapDelete(files, planID)
             /\ planRet' = PlanOutput("delete", <<"Plan '", planID, "' deleted successfully">>)

\* PlanningTool.deletePlan.
deletePlan(args) ==
    LET planID == StringArg(args, "plan_id")
    IN  IF planID = ""
        THEN /\ planRet' = PlanError("delete", <<"plan_id is required for delete command">>)
             /\ UNCHANGED <<plans, activePlan, files>>
        ELSE IF planID \notin DOMAIN plans
        THEN /\ planRet' = PlanError("delete", <<"Plan with ID ", planID, " not found">>)
             /\ UNCHANGED <<plans, activePlan, files>>
        ELSE /\ plans' = MapDelete(plans, planID)
             /\ activePlan' = IF activePlan = planID THEN "" ELSE activePlan
             /\ files' = MapDelete(files, planID)
             /\ planRet' = PlanOutput("delete", <<"Plan '", planID, "' deleted successfully">>)

\* PlanningTool.Execute: the dispatch on the command argument.
PlanningTool_Execute(args) ==
    IF ~IsA(args, "command", "string")
    THEN /\ planRet' = PlanError("none", <<"command parameter is required">>)
         /\ UNCHANGED <<plans, activePlan, files>>
    ELSE CASE args["command"].v = "create" -> createPlan(args)
           [] args["command"].v = "update" -> updatePlan(args)
           [] args["command"].v = "set_active" -> setActivePlan(args)
           [] args["command"].v = "mark_step" -> markStep(args)
           [] args["command"].v = "delete" -> deletePlan(args)
           [] OTHER -> /\ planRet' = PlanError("none", <<"Unknown command: ", args["command"].v>>)
                       /\ UNCHANGED <<plans, activePlan, files>>

\* ------------------------------------------- callers of the planning tool
\* The plan ids callers create plans under, and an id no plan ever has.
PlanIDs == {"plan_a"}
GhostID == "ghost"

\* The step descriptions of a plan, in order; a plan uses the first few of them.
Descriptions == <<"a", "b", "c", "d">>
StepLists == {[k \in 1..n |-> Descriptions[k]] : n \in 0..MaxPlanSteps}

\* The ways of passing, or not passing, the argument k with a value of vals.
Opt(k, vals) == {NoArgs} \cup {k :> v : v \in vals}

PlanIDArgs == Opt("plan_id", {Str(id) : id \in PlanIDs \cup {GhostID}})

CreateArgs ==
    {("command" :> Str("create")) @@ id @@ title @@ steps :
        id \in Opt("plan_id", {Str(id) : id \in PlanIDs \cup NestedIDs}),
        title \in Opt("title", {Str("t")}),
        steps \in Opt("steps", {List(l) : l \in StepLists})}

UpdateArgs ==
    {("command" :> Str("update")) @@ id @@ title @@ steps :
        id \in PlanIDArgs,
        title \in Opt("title", {Str("t")}),
        steps \in Opt("steps", {List(l) : l \in StepLists})}

SetActiveArgs == {("command" :> Str("set_active")) @@ id : id \in PlanIDArgs}

DeleteArgs ==
    {("command" :> Str("delete")) @@ id :
        id \in PlanIDArgs \cup {"plan_id" :> Str(id) : id \in NestedIDs}}

\* mark_step as it arrives from a tool call: ParseToolArgs decodes the JSON
\* arguments, so a number is a float64. The calls with every argument a
\* mark_step reads, and the calls that lack one or carry a bad one.
MarkStepArgs ==
    {("command" :> Str("mark_step")) @@ id @@ ("step_index" :> Float64(v))
            @@ ("status" :> Str(st)) @@ result :
        id \in Opt("plan_id", {Str(id) : id \in PlanIDs}),
        v \in (0 - 1)..MaxPlanSteps,
        st \in {PlanStepNotStarted, PlanStepInProgress, PlanStepCompleted, PlanStepBlocked},
        result \in Opt("result", {Str("r")})}
    \cup {("command" :> Str("mark_step")) @@ ("status" :> Str(PlanStepCompleted)),
          ("command" :> Str("mark_step")) @@ ("step_index" :> Float64(0)),
          ("command" :> Str("mark_step")) @@ ("step_index" :> Float64(0))
              @@ ("status" :> Str("bogus")),
          ("command" :> Str("mark_step")) @@ ("plan_id" :> Str(GhostID))
              @@ ("step_index" :> Float64(0)) @@ ("status" :> Str(PlanStepCompleted))}

\* The results and error texts PlanningFlow.executeStep stores with a step.
FlowResults == {"r", "Error: e"}

\* The arguments PlanningFlow.executeStep builds to mark the step stepIndex (a Go
\* int) in progress, and completed or blocked with a result.
executeStep_inProgressArgs(stepIndex) ==
    ("command" :> Str("mark_step")) @@ ("step_index" :> GoInt(stepIndex))
        @@ ("status" :> Str("in_progress"))
executeStep_resultArgs(stepIndex, status, result) ==
    ("command" :> Str("mark_step")) @@ ("step_index" :> GoInt(stepIndex))
        @@ ("status" :> Str(status)) @@ ("result" :> Str(result))

nonPlanVars == <<memVars, agentVars, callVars, appended, thinkCount, stuckResult, actLog,
                 backend, flowVars, mu>>

PlanCreate ==
    /\ \E args \in CreateArgs : PlanningTool_Execute(args)
    /\ UNCHANGED nonPlanVars

PlanUpdate ==
    /\ \E args \in UpdateArgs : PlanningTool_Execute(args)
    /\ UNCHANGED nonPlanVars

PlanSetActive ==
    /\ \E args \in SetActiveArgs : PlanningTool_Execute(args)
    /\ UNCHANGED nonPlanVars

PlanMarkStep ==
    /\ \E args \in MarkStepArgs : PlanningTool_Execute(args)
    /\ UNCHANGED nonPlanVars

PlanDelete ==
    /\ \E args \in DeleteArgs : PlanningTool_Execute(args)
    /\ UNCHANGED nonPlanVars

\* PlanningFlow.executeStep's calls of the planning tool on a step of the active
\* plan: in progress before the executor runs, completed or blocked after it.
FlowMarkStep ==
    /\ activePlan \in DOMAIN plans
    /\ \E stepIndex \in 0..(Len(plans[activePlan].Steps) - 1) :
          \/ PlanningTool_Execute(executeStep_inProgressArgs(stepIndex))
          \/ \E status \in {PlanStepCompleted, PlanStepBlocked}, result \in FlowResults :
                PlanningTool_Execute(executeStep_resultArgs(stepIndex, status, result))
    /\ UNCHANGED nonPlanVars

\* NewPlanningTool over the same storage directory: a fresh tool loads the files.
PlanReload ==
    /\ plans' = loadPlans(files)
    /\ activePlan' = ""
    /\ planRet' = PlanOutput("NewPlanningTool", <<>>)
    /\ UNCHANGED files
    /\ UNCHANGED nonPlanVars

\* ------------------------------------------------------ flow.PlanningFlow
\* The agents a flow holds, by key; the agent of this model is the only one.
AgentKeys == {"manus"}

\* How many times a caller invokes Execute on one flow.
MaxExecutes == 2

\* The input texts a caller passes to Execute.
InputTexts == {"x"}

\* FlowBase.GetPrimaryAgent: TRUE when it returns an agent, FALSE for nil.
GetPrimaryAgent(key) == key # "" /\ key \in AgentKeys

\* PlanningFlow.getExecutor for a step of type "default".
getExecutor(key) == GetPrimaryAgent(key)

\* PlanningTool.GetActivePlan: <<plan>>, or <<>> for nil.
GetActivePlan(plansMap, active) ==
    IF active = "" \/ active \notin DOMAIN plansMap THEN <<>> ELSE <<plansMap[active]>>

\* Execute's planID, fmt.Sprintf("plan_%d", b) of a bool b: the verb d does not
\* fit a bool, so the text is the bad-verb notice.
GeneratedPlanID(hasActivePlan) ==
    IF hasActivePlan THEN "plan_%!d(bool=true)" ELSE "plan_%!d(bool=false)"

\* createInitialPlan's fixed step template.
InitialSteps ==
    <<"Analyze the request", "Plan the solution", "Execute the plan", "Verify the results">>

\* The arguments of createInitialPlan's two calls of the planning tool.
createInitialPlan_createArgs(inputText, id) ==
    ("command" :> Str("create")) @@ ("plan_id" :> Str(id))
        @@ ("title" :> Str("Plan for: " \o inputText)) @@ ("steps" :> List(InitialSteps))
createInitialPlan_setActiveArgs(id) ==
    ("command" :> Str("set_active")) @@ ("plan_id" :> Str(id))

\* PlanningFlow.getCurrentStepInfo: the index of the first step of the active plan
\* that is not started or in progress; 0 - 1 stands for nil.
getCurrentStepInfo(plansMap, active) ==
    LET plan == GetActivePlan(plansMap, active)
        open == IF plan = <<>> THEN {}
                ELSE {i \in 1..Len(plan[1].Steps) :
                        plan[1].Steps[i].Status \in {PlanStepNotStarted, PlanStepInProgress}}
    IN  IF open = {} THEN 0 - 1
        ELSE (CHOOSE i \in open : \A j \in open : i <= j) - 1

\* PlanningFlow.finalizePlan.
finalizePlan(plansMap, active) ==
    LET plan == GetActivePlan(plansMap, active)
    IN  IF plan = <<>> THEN "Plan execution completed."
        ELSE LET completed == Cardinality({i \in 1..Len(plan[1].Steps) :
                                    plan[1].Steps[i].Status = PlanStepCompleted})
             IN  "Plan execution completed. " \o ToString(completed) \o "/"
                     \o ToString(Len(plan[1].Steps)) \o " steps completed."

\* The text of an error Run returns (fmt's verb v).
ErrorText(err, state) ==
    CASE err = "InvalidState" -> "cannot run agent from state: " \o state
      [] err = "StepNotImplemented" -> "Step method must be implemented by subclass"
      [] OTHER -> err

\* The text Run returns: its result lines joined by newlines.
RECURSIVE ConcatTokens(_)
ConcatTokens(tokens) ==
    IF tokens = <<>> THEN "" ELSE Head(tokens) \o ConcatTokens(Tail(tokens))
LineText(line) ==
    CASE line.kind = "Step" -> "Step " \o ToString(line.n) \o ": " \o ConcatTokens(line.text)
      [] line.kind = "Terminated: Reached max steps" ->
            "Terminated: Reached max steps (" \o ToString(line.n) \o ")"
      [] OTHER -> line.kind
RECURSIVE RunText(_)
RunText(lines) ==
    IF lines = <<>> THEN ""
    ELSE IF Len(lines) = 1 THEN LineText(lines[1])
    ELSE LineText(lines[1]) \o "\n" \o RunText(Tail(lines))

\* Execute's test executor.(*agent.ToolCallAgent): the executor is a
\* *agent.BaseAgent, which is never a *agent.ToolCallAgent.
IsToolCallAgent == FALSE

\* The executor's Run is goroutine 2 of the model; goroutine 1 stays free for
\* direct calls of Think and Act on the same agent.
agentSideVars == <<memVars, agentVars, callVars, appended, thinkCount, stuckResult, actLog,
                   backend, mu>>

\* Execute, entry: the plan id is generated and createInitialPlan creates the plan.
FlowExecute ==
    /\ flowPc = "idle"
    /\ executes < MaxExecutes
    /\ \E inputText \in InputTexts :
          LET id == GeneratedPlanID(GetActivePlan(plans, activePlan) # <<>>)
          IN  /\ PlanningTool_Execute(createInitialPlan_createArgs(inputText, id))
              /\ flowPlanID' = id
    /\ flowPc' = "setActive"
    /\ flowStepIndex' = 0 - 1
    /\ flowResult' = ""
    /\ flowRet' = [op |-> "Execute", err |-> "running", val |-> ""]
    /\ started' = <<>>
    /\ executes' = executes + 1
    /\ UNCHANGED <<primaryAgentKey, activePlanID, agentSideVars>>

\* createInitialPlan sets the plan active and returns a nil error; Execute stores
\* the id in p.activePlanID.
FlowSetActive ==
    /\ flowPc = "setActive"
    /\ PlanningTool_Execute(createInitialPlan_setActiveArgs(flowPlanID))
    /\ activePlanID' = flowPlanID
    /\ flowPc' = "select"
    /\ UNCHANGED <<primaryAgentKey, flowPlanID, flowStepIndex, flowResult, flowRet, started,
                   executes, agentSideVars>>

\* Execute, top of the loop: the current step is selected. With no step left the
\* plan is finalized, with no executor the flow gives up; otherwise executeStep
\* marks the step in progress and is about to call executor.Run.
FlowSelect ==
    /\ flowPc = "select"
    /\ LET i == getCurrentStepInfo(plans, activePlan)
       IN  IF i = 0 - 1
           THEN /\ flowRet' = [op |-> "Execute", err |-> "nil",
                               val |-> flowResult \o finalizePlan(plans, activePlan)]
                /\ flowResult' = flowResult \o finalizePlan(plans, activePlan)
                /\ flowPc' = "idle"
                /\ UNCHANGED <<planVars, flowStepIndex, started, ret>>
           ELSE IF ~getExecutor(primaryAgentKey)
           THEN LET line == "Step " \o ToString(i)
                              \o ": No executor available for type default\n"
                IN  /\ flowRet' = [op |-> "Execute", err |-> "nil", val |-> flowResult \o line]
                    /\ flowResult' = flowResult \o line
                    /\ flowPc' = "idle"
                    /\ flowStepIndex' = i
                    /\ UNCHANGED <<planVars, started, ret>>
           ELSE /\ PlanningTool_Execute(executeStep_inProgressArgs(i))
                /\ flowStepIndex' = i
                /\ started' = Append(started, i)
                /\ ret' = [ret EXCEPT ![2] = [op |-> "none", err |-> "nil", val |-> <<>>]]
                /\ flowPc' = "run"
                /\ UNCHANGED <<flowResult, flowRet>>
    /\ UNCHANGED <<primaryAgentKey, activePlanID, flowPlanID, executes, memVars, agentVars,
                   pc, request, results, appended, thinkCount, stuckResult, actLog, backend,
                   mu>>

\* executeStep: executor.Run(ctx, description) is called.
FlowRunEnter ==
    /\ flowPc = "run"
    /\ ret[2].op = "none"
    /\ RunEnterWith(2, <<plans[activePlan].Steps[flowStepIndex + 1].Description>>)

\* executeStep: the executor's Run proceeds.
FlowRun ==
    /\ flowPc = "run"
    /\ \/ RunAppend(2)
       \/ RunSetRunning(2)
       \/ RunLoop(2)
       \/ RunIncr(2)
       \/ RunStep(2)
       \/ RunFinish(2)

\* The end of a step in an Execute that hands a failed step's error to its caller.
FlowEndStep_returnsError ==
    /\ flowPc = "run"
    /\ pc[2] = "idle"
    /\ ret[2].op = "Run"
    /\ ret[2].err # "running"
    /\ IF ret[2].err # "nil"
       THEN LET text == ErrorText(ret[2].err, State)
                line == "Step " \o ToString(flowStepIndex) \o " failed: " \o text \o "\n"
            IN  /\ PlanningTool_Execute(
                       executeStep_resultArgs(flowStepIndex, PlanStepBlocked, "Error: " \o text))
                /\ flowResult' = flowResult \o line
                /\ flowRet' = [op |-> "Execute", err |-> ret[2].err, val |-> ""]
                /\ flowPc' = "idle"
       ELSE LET text == RunText(ret[2].val)
                line == "Step " \o ToString(flowStepIndex) \o ": " \o text \o "\n"
            IN  /\ PlanningTool_Execute(
                       executeStep_resultArgs(flowStepIndex, PlanStepCompleted, text))
                /\ flowResult' = flowResult \o line
                /\ IF IsToolCallAgent /\ State = AgentStateFINISHED
                   THEN /\ flowRet' = [op |-> "Execute", err |-> "nil",
                                       val |-> flowResult \o line]
                        /\ flowPc' = "idle"
                   ELSE /\ flowPc' = "select"
                        /\ UNCHANGED flowRet
    /\ UNCHANGED <<primaryAgentKey, activePlanID, flowPlanID, flowStepIndex, started, executes,
                   agentSideVars>>

\* executeStep after Run returned, and the rest of Execute's loop body: the step
\* is marked blocked or completed, the step's line is written, and the flow
\* returns or goes back to the top of the loop.
FlowEndStep ==
    /\ flowPc = "run"
    /\ pc[2] = "idle"
    /\ ret[2].op = "Run"
    /\ ret[2].err # "running"
    /\ IF ret[2].err # "nil"
       THEN LET text == ErrorText(ret[2].err, State)
                line == "Step " \o ToString(flowStepIndex) \o " failed: " \o text \o "\n"
            IN  /\ PlanningTool_Execute(
                       executeStep_resultArgs(flowStepIndex, PlanStepBlocked, "Error: " \o text))
                /\ flowResult' = flowResult \o line
                /\ flowRet' = [op |-> "Execute", err |-> "nil", val |-> flowResult \o line]
                /\ flowPc' = "idle"
       ELSE LET text == RunText(ret[2].val)
                line == "Step " \o ToString(flowStepIndex) \o ": " \o text \o "\n"
            IN  /\ PlanningTool_Execute(
                       executeStep_resultArgs(flowStepIndex, PlanStepCompleted, text))
                /\ flowResult' = flowResult \o line
                /\ IF IsToolCallAgent /\ State = AgentStateFINISHED
                   THEN /\ flowRet' = [op |-> "Execute", err |-> "nil",
                                       val |-> flowResult \o line]
                        /\ flowPc' = "idle"
                   ELSE /\ flowPc' = "select"
                        /\ UNCHANGED flowRet
    /\ UNCHANGED <<primaryAgentKey, activePlanID, flowPlanID, flowStepIndex, started, executes,
                   agentSideVars>>

\* ---------------------------------------------------------- specifications
\* The agent after NewToolCallAgent, with the configuration fields set.
Init ==
    /\ Messages = <<>>
    /\ MaxMessages \in 1..AgentCapacity
    /\ DuplicateThreshold = 2
    /\ MaxSteps \in 0..MaxStepsBound
    /\ NextStepPrompt \in {<<>>, <<"next">>}
    /\ ToolChoices \in {"none", "auto", "required"}
    /\ InitAgent
    /\ appended = <<>>
    /\ stuckResult = <<>>
    /\ backend \in Backends
    /\ InitNoPlans
    /\ InitNoFlow

\* One goroutine uses the agent: it calls Run, and between Runs the exported
\* Think and Act.
Next ==
    \/ RunEnter(1)
    \/ RunAppend(1)
    \/ RunSetRunning(1)
    \/ RunLoop(1)
    \/ RunIncr(1)
    \/ RunStep(1)
    \/ RunFinish(1)
    \/ Think
    \/ Act

Spec == Init /\ [][Next]_vars

\* Two goroutines call Run on the same agent.
NextConc ==
    \E t \in Threads :
        \/ RunEnter(t)
        \/ RunAppend(t)
        \/ RunSetRunning(t)
        \/ RunLoop(t)
        \/ RunIncr(t)
        \/ RunStep(t)
        \/ RunFinish(t)

SpecConc == Init /\ [][NextConc]_vars

\* Goroutine 2 calls Run while goroutine 1 calls the exported Think and Act on the
\* same agent.
NextMixed ==
    \/ RunEnter(2)
    \/ RunAppend(2)
    \/ RunSetRunning(2)
    \/ RunLoop(2)
    \/ RunIncr(2)
    \/ RunStep(2)
    \/ RunFinish(2)
    \/ Think
    \/ Act

SpecMixed == Init /\ [][NextMixed]_vars

\* BaseAgent.IsStuck and BaseAgent.GetMessages, entry: a.mu.RLock().
ReadLock(t) ==
    /\ pc[t] = "idle"
    /\ \E op \in {"IsStuck", "GetMessages"} : pc' = [pc EXCEPT ![t] = op]
    /\ mu' = mu \cup {t}
    /\ UNCHANGED <<memVars, agentVars, request, results, ret, appended, thinkCount,
                   stuckResult, actLog, backend, planVars, flowVars>>

\* BaseAgent.IsStuck and BaseAgent.GetMessages, the read and the deferred
\* a.mu.RUnlock().
ReadUnlock(t) ==
    /\ pc[t] \in {"IsStuck", "GetMessages"}
    /\ ret' = [ret EXCEPT ![t] =
            [op |-> pc[t], err |-> "nil",
             val |-> IF pc[t] = "IsStuck" THEN <<IsStuck(Messages, DuplicateThreshold)>>
                     ELSE Messages]]
    /\ stuckResult' = IF pc[t] = "IsStuck" THEN <<IsStuck(Messages, DuplicateThreshold)>>
                      ELSE stuckResult
    /\ pc' = [pc EXCEPT ![t] = "idle"]
    /\ mu' = mu \ {t}
    /\ UNCHANGED <<memVars, agentVars, request, results, appended, thinkCount, actLog,
                   backend, planVars, flowVars>>

\* Goroutine 1 drives the agent (Run, Think, Act) while goroutine 2 reads its
\* Memory through IsStuck and GetMessages.
InitLock == Init /\ backend = "terminates" /\ ToolChoices = "auto"

NextLock ==
    \/ Next
    \/ ReadLock(2)
    \/ ReadUnlock(2)

SpecLock == InitLock /\ [][NextLock]_vars

\* An agent whose model answers the same thing each time, with room in Memory
\* for the repeats: Think is called directly, then Run.
InitStuck ==
    /\ Messages = <<>>
    /\ MaxMessages = MaxCapacity
    /\ DuplicateThreshold \in 1..MaxThreshold
    /\ MaxSteps \in 0..MaxStepsBound
    /\ NextStepPrompt \in {<<>>, <<"next">>}
    /\ ToolChoices = "auto"
    /\ InitAgent
    /\ appended = <<>>
    /\ stuckResult = <<>>
    /\ backend = "silent"
    /\ InitNoPlans
    /\ InitNoFlow

SpecStuck == InitStuck /\ [][Next]_vars

\* An agent with no pending calls whose Memory a caller fills and whose Act a
\* caller invokes directly. The messages are those of SpecMem and an assistant
\* message that carries tool calls and no content.
DirectPool == MsgPool \cup {NewMessageFromToolCalls(<<>>, WithIDs(<<Call("echo", "ok")>>, 0))}

InitActDirect ==
    /\ Messages = <<>>
    /\ MaxMessages \in 1..AgentCapacity
    /\ DuplicateThreshold = 2
    /\ MaxSteps = 0
    /\ NextStepPrompt = <<>>
    /\ ToolChoices \in {"none", "auto", "required"}
    /\ InitAgent
    /\ appended = <<>>
    /\ stuckResult = <<>>
    /\ backend = "free"
    /\ InitNoPlans
    /\ InitNoFlow

\* A caller appends one message: Memory.AddMessage.
DirectAddMessage ==
    /\ \E msg \in DirectPool : Messages' = AddMessage(Messages, MaxMessages, msg)
    /\ UNCHANGED <<MaxMessages, agentVars, callVars, appended, thinkCount, stuckResult,
                   actLog, backend, planVars, flowVars, mu>>

NextActDirect == DirectAddMessage \/ ActDirect

SpecActDirect == InitActDirect /\ [][NextActDirect]_vars

\* A planning tool over an empty storage directory and its callers; the agent
\* is not used.
InitPlan ==
    /\ Messages = <<>>
    /\ MaxMessages = 1
    /\ DuplicateThreshold = 2
    /\ MaxSteps = 0
    /\ NextStepPrompt = <<>>
    /\ ToolChoices = "auto"
    /\ InitAgent
    /\ appended = <<>>
    /\ stuckResult = <<>>
    /\ backend = "free"
    /\ InitNoPlans
    /\ InitNoFlow

NextPlan ==
    \/ PlanCreate
    \/ PlanUpdate
    \/ PlanSetActive
    \/ PlanMarkStep
    \/ PlanDelete
    \/ FlowMarkStep
    \/ PlanReload

SpecPlan == InitPlan /\ [][NextPlan]_vars

\* The store a flow of an earlier process left behind: its plan, no step marked.
LeftoverStore ==
    LET plan == Plan(GeneratedPlanID(FALSE), "Plan for: old", NewSteps(InitialSteps))
    IN  MapPut(<<>>, plan.ID, MarshalPlan(plan))

\* NewPlanningFlow over an empty store or over the store an earlier flow left,
\* with an idle executor, or with a primary key no agent is registered under.
InitFlowConfig ==
    /\ Messages = <<>>
    /\ MaxMessages \in 1..AgentCapacity
    /\ DuplicateThreshold = 2
    /\ MaxSteps \in 0..MaxStepsBound
    /\ NextStepPrompt = <<>>
    /\ ToolChoices = "auto"
    /\ InitAgent
    /\ appended = <<>>
    /\ stuckResult = <<>>
    /\ files \in {<<>>, LeftoverStore}
    /\ plans = loadPlans(files)
    /\ activePlan = ""
    /\ planRet = PlanOutput("NewPlanningTool", <<>>)
    /\ primaryAgentKey \in {"manus", "nobody"}
    /\ activePlanID = ""
    /\ flowPc = "idle"
    /\ flowPlanID = ""
    /\ flowStepIndex = 0 - 1
    /\ flowResult = ""
    /\ flowRet = [op |-> "none", err |-> "nil", val |-> ""]
    /\ started = <<>>
    /\ executes = 0

InitFlow == InitFlowConfig /\ backend = "free"

NextFlow ==
    \/ FlowExecute
    \/ FlowSetActive
    \/ FlowSelect
    \/ FlowRunEnter
    \/ FlowRun
    \/ FlowEndStep

SpecFlow == InitFlow /\ [][NextFlow]_vars

\* Execute runs on its caller's goroutine, which keeps running: once called, each
\* of its statements is eventually executed, and the executor's Run, being given
\* to return, keeps taking its steps. Nothing obliges a caller to call Execute.
FlowProgress ==
    \/ FlowSetActive
    \/ FlowSelect
    \/ FlowRunEnter
    \/ FlowRun
    \/ FlowEndStep

SpecFlowFair == SpecFlow /\ WF_vars(FlowProgress)

\* A flow whose executor is the BaseAgent of a tool-calling agent that another
\* goroutine drives with Think and Act while the flow executes.
InitFlowMixed == InitFlowConfig /\ backend = "terminates"

NextFlowMixed ==
    \/ NextFlow
    \/ Think
    \/ Act

SpecFlowMixed == InitFlowMixed /\ [][NextFlowMixed]_vars

\* ---------------------------------------------------------------- claims
\* Goroutine t's step is an entry into Run (admitted, or rejected with a new return).
RunCalled(t) ==
    /\ pc[t] = "idle"
    /\ \/ pc'[t] # "idle"
       \/ ret'[t] # ret[t] /\ ret'[t].op = "Run"

\* Goroutine t's last call was a Run that was admitted and has returned.
RunReturned(t) ==
    /\ pc[t] = "idle"
    /\ ret[t].op = "Run"
    /\ ret[t].err \notin {"InvalidState", "running"}

\* C1: one call of Run invokes Step at most MaxSteps times (CurrentStep never
\* exceeds MaxSteps); the loop is left only when the state is FINISHED or MaxSteps
\* steps have run or a step failed, and goes on otherwise.
C1_RunWithinStepBudget ==
    /\ CurrentStep <= MaxSteps
    /\ pc[1] = "finish" => (State = AgentStateFINISHED \/ CurrentStep >= MaxSteps)
    /\ pc[1] \in {"incr", "step"} => State # AgentStateFINISHED
    /\ pc[1] = "incr" => CurrentStep < MaxSteps
    /\ RunReturned(1) =>
          \/ ret[1].err # "nil"
          \/ State = AgentStateFINISHED
          \/ CurrentStep >= MaxSteps

\* C1 witness: an admitted Run has returned with the step budget used up.
C1_Witness ==
    /\ RunReturned(1)
    /\ MaxSteps >= 1
    /\ CurrentStep = MaxSteps

\* C2 (as claimed): every loop iteration of Run on a tool-calling agent executes
\* one Think (then Act iff Think returned true), and Run is aborted with an error
\* only when that Think or Act itself fails.
C2_IterationThinksThenActs ==
    [][\A t \in Threads :
          (pc[t] = "step" /\ pc'[t] # "step") =>
              /\ thinkCount' = thinkCount + 1
              /\ (pc'[t] = "idle" => ret'[t].err \in {"LLMError", "ToolCallsRequired"})]_vars

\* C3: Run called while the state is not IDLE returns the invalid-state error and
\* leaves State, CurrentStep, Memory and NextStepPrompt as they were.
C3_RejectedRunChangesNothing ==
    [][\A t \in Threads :
          (RunCalled(t) /\ State # AgentStateIDLE) =>
              /\ pc'[t] = "idle"
              /\ ret'[t].err = "InvalidState"
              /\ UNCHANGED <<State, CurrentStep, Messages, NextStepPrompt>>]_vars

\* C3 witness: a Run was rejected on an agent that had already run and holds the
\* first request in Memory.
C3_Witness ==
    /\ pc[1] = "idle"
    /\ ret[1].op = "Run"
    /\ ret[1].err = "InvalidState"
    /\ State = AgentStateERROR
    /\ Messages # <<>>

\* C4 (as claimed): of two concurrent Run calls on one agent at most one is
\* admitted into the step loop.
C4_AtMostOneRunAdmitted == Cardinality({t \in Threads : pc[t] # "idle"}) <= 1

\* C5 (as claimed): once the state is FINISHED or ERROR it never changes again.
C5_TerminalStatesAreFinal ==
    [][(State \in {AgentStateFINISHED, AgentStateERROR}) => (State' = State)]_vars

\* The tool message at position i answers a call of the nearest preceding
\* assistant message still in Memory.
PairedAt(i) ==
    \E j \in 1..(i - 1) :
        /\ Messages[j].Role = RoleAssistant
        /\ \A l \in (j + 1)..(i - 1) : Messages[l].Role # RoleAssistant
        /\ \E k \in 1..Len(Messages[j].ToolCalls) :
              <<Messages[j].ToolCalls[k].ID>> = Messages[i].ToolCallID

\* C8 (as claimed): every tool-role message in Memory carries the id of a tool call
\* listed in the nearest preceding assistant message still in Memory.
C8_ToolMessagesPaired ==
    \A i \in 1..Len(Messages) : Messages[i].Role = RoleTool => PairedAt(i)

Min(a, b) == IF a < b THEN a ELSE b

\* C6: after any sequence of AddMessage and AddMessages calls the number of
\* messages held in Memory never exceeds the capacity MaxMessages.
C6_MemoryWithinCapacity == Len(Messages) <= MaxMessages

\* C6 witness: more messages were appended than fit, and Memory is full.
C6_Witness ==
    /\ MaxMessages >= 1
    /\ Len(appended) > MaxMessages
    /\ Len(Messages) = MaxMessages

\* C7: Memory holds exactly the most recent min(total appended, MaxMessages)
\* messages, in the order they were appended.
C7_MemoryIsNewestSuffix ==
    LET keep == Min(Len(appended), MaxMessages)
    IN  Messages = SubSeq(appended, Len(appended) - keep + 1, Len(appended))

\* C7 witness: an eviction happened and two different survivors are retained.
C7_Witness ==
    /\ Len(appended) > MaxMessages
    /\ Len(Messages) >= 2
    /\ Messages[1] # Messages[2]

\* IsStuck as C9 describes it: decided by the latest assistant-role message, which
\* must have non-empty content repeated by at least `threshold` earlier assistant
\* messages.
ClaimedIsStuck(messages, threshold) ==
    LET idx == {i \in 1..Len(messages) : messages[i].Role = RoleAssistant}
    IN  /\ idx # {}
        /\ LET l == CHOOSE i \in idx : \A j \in idx : j <= i
           IN  /\ messages[l].Content # <<>>
               /\ messages[l].Content[1] # <<>>
               /\ Cardinality({i \in idx : /\ i < l
                                            /\ messages[i].Content = messages[l].Content})
                      >= threshold

\* C9 (as claimed): IsStuck returns true iff the latest assistant-role message has
\* non-empty content and at least DuplicateThreshold earlier assistant messages have
\* the same content; other roles and empty content never make it true.
C9_IsStuckIffLatestAssistantRepeated ==
    stuckResult # <<>> =>
        stuckResult[1] = ClaimedIsStuck(Messages, DuplicateThreshold)

\* The repeated-content scenario of C10: only one non-empty assistant content
\* has been appended, k = Len(appended) times.
OnlyRepeats ==
    /\ appended # <<>>
    /\ \A i \in 1..Len(appended) : appended[i] = NewAssistantMessage(<<"x">>)

\* C10 (as claimed): IsStuck is false after each of the first DuplicateThreshold
\* occurrences and true after every later one, whatever the Memory capacity.
C10_StuckFromThresholdthRepeat ==
    (OnlyRepeats /\ stuckResult # <<>>) =>
        stuckResult[1] = (Len(appended) >= DuplicateThreshold + 1)

\* C10 (amended): the same, for a Memory whose capacity exceeds DuplicateThreshold,
\* so that DuplicateThreshold + 1 occurrences can be retained.
C10_StuckFromThresholdthRepeatWithinCapacity ==
    (OnlyRepeats /\ stuckResult # <<>> /\ MaxMessages > DuplicateThreshold) =>
        stuckResult[1] = (Len(appended) >= DuplicateThreshold + 1)

\* C10 witness: more occurrences than the capacity were appended and IsStuck
\* answered true.
C10_Witness ==
    /\ OnlyRepeats
    /\ MaxMessages > DuplicateThreshold
    /\ Len(appended) > MaxMessages
    /\ stuckResult = <<TRUE>>

\* ------------------------------------------------- claims on tool dispatch
\* Goroutine 1's step is a call of Act that dispatches a non-empty batch.
ActDispatched ==
    /\ ret[1].op = "Think"
    /\ ret'[1].op = "Act"
    /\ Len(ToolCalls) > 0

\* The batch of the current Think/Act pair holds a special-tool call.
BatchHasSpecial == \E k \in 1..Len(ToolCalls) : isSpecialTool(ToolCalls[k].Name)

\* The log entries of the batch's k-th call, if the log is in the proposed order.
ExecutedAt(log, k) == log[2 * k - 1]
AppendedAt(log, k) == log[2 * k]

\* Where the tool message of call k of n lies in a Memory of length len, if retained.
MemorySlot(k, n, len) == len - (n - k)

\* The number of "Step" lines in a result of Run.
StepLines(val) == Cardinality({j \in 1..Len(val) : val[j].kind = "Step"})

\* The result of Run ends with the exhaustion note.
EndsWithExhaustionNote(val) ==
    /\ Len(val) > 0
    /\ val[Len(val)].kind = "Terminated: Reached max steps"

\* C11, dispatch: Act over a batch holding a call to an unregistered tool logs for
\* that call an observation naming the tool as invalid, returns no error, and
\* leaves the state as it was unless the batch also holds a special tool.
C11_UnregisteredToolObserved ==
    [][ActDispatched =>
          /\ ret'[1].err = "nil"
          /\ BatchHasSpecial \/ State' = State
          /\ \A k \in 1..Len(ToolCalls) :
                (ToolCalls[k].Name \notin AvailableTools /\ ToolCalls[k].Arguments # "bad") =>
                    AppendedAt(actLog', k).msg =
                        NewToolMessage(<<"Error: ", "Tool ", ToolCalls[k].Name, " is invalid">>,
                                       ToolCalls[k].Name, ToolCalls[k].ID)]_vars

\* C11 (as claimed): the above, and a Run whose backend proposes an unregistered
\* tool in every step is not aborted: it goes on step after step, so it returns
\* without error after MaxSteps steps with the state still RUNNING.
C11_UnregisteredToolDoesNotAbortRun ==
    /\ C11_UnregisteredToolObserved
    /\ [](RunReturned(1) /\ backend = "unknownTool" =>
            /\ ret[1].err = "nil"
            /\ State = AgentStateRUNNING
            /\ CurrentStep = MaxSteps)

\* The three tool-level failures of a call: its arguments do not parse, the tool
\* returns an error result, the tool's execution returns an error.
MalformedArguments(toolCall) == toolCall.Arguments = "bad"
ReturnsErrorResult(toolCall, outcome) ==
    /\ ~MalformedArguments(toolCall)
    /\ \/ toolCall.Name \notin AvailableTools
       \/ toolCall.Name # "terminate" /\ outcome = "error_result"
ExecutionFails(toolCall, outcome) ==
    /\ ~MalformedArguments(toolCall)
    /\ toolCall.Name \in AvailableTools \ {"terminate"}
    /\ outcome = "exec_error"

\* The text of an observation reports a failure.
IsErrorText(text) ==
    /\ text # <<>>
    /\ text[1] \in {"Error parsing arguments for ", "Error: ", "Tool '"}

\* C12: whatever fails at the tool level (malformed arguments, an error result, an
\* execution error), Act returns without error, appends for that call a tool-role
\* message holding the formatted error text, and does not make the state ERROR.
C12_ToolFailuresStayInAct ==
    [][ActDispatched =>
          /\ ret'[1].err = "nil"
          /\ State' = AgentStateERROR => State = AgentStateERROR
          /\ \A k \in 1..Len(ToolCalls) :
                LET toolCall == ToolCalls[k]
                    outcome == ExecutedAt(actLog', k).outcome
                    msg == AppendedAt(actLog', k).msg
                    slot == MemorySlot(k, Len(ToolCalls), Len(Messages'))
                IN  (\/ MalformedArguments(toolCall)
                     \/ ReturnsErrorResult(toolCall, outcome)
                     \/ ExecutionFails(toolCall, outcome)) =>
                        /\ msg.Role = RoleTool
                        /\ msg.ToolCallID = <<toolCall.ID>>
                        /\ IsErrorText(msg.Content[1])
                        /\ MalformedArguments(toolCall) =>
                              msg.Content[1][1] = "Error parsing arguments for "
                        /\ ReturnsErrorResult(toolCall, outcome) =>
                              msg.Content[1][1] = "Error: "
                        /\ ExecutionFails(toolCall, outcome) =>
                              msg.Content[1] = <<"Tool '", toolCall.Name,
                                                 "' encountered a problem: ", "exec failed">>
                        /\ slot >= 1 => Messages'[slot] = msg]_vars

\* C12 witness: Act has returned without error from a batch whose second call (to
\* a registered tool) failed, and the error observation is the last Memory message.
C12_Witness ==
    /\ ret[1].op = "Act"
    /\ ret[1].err = "nil"
    /\ Len(ToolCalls) = 2
    /\ ExecutedAt(actLog, 2).outcome = "exec_error"
    /\ ~MalformedArguments(ToolCalls[2])
    /\ Messages[Len(Messages)].Role = RoleTool
    /\ IsErrorText(Messages[Len(Messages)].Content[1])
    /\ State # AgentStateERROR

\* ------------------------------------------------ claims on failing thinks
\* The assistant message Think appends when the model call fails.
FailureMessage == NewAssistantMessage(<<"Error encountered while processing: ", "llm error">>)

\* The number of assistant messages in a Memory.
AssistantCount(messages) ==
    Cardinality({j \in 1..Len(messages) : messages[j].Role = RoleAssistant})

\* C13, think: a Think whose model call fails appends exactly one assistant
\* message, which records the failure, executes no tool and returns the error.
C13_FailedThinkRecordsFailure ==
    [][(thinkCount' = thinkCount + 1 /\ ret'[1].err = "LLMError") =>
          /\ Messages'[Len(Messages')] = FailureMessage
          /\ AssistantCount(Messages') <= AssistantCount(Messages) + 1
          /\ actLog' = <<>>
          /\ ToolCalls' = ToolCalls
          /\ ret'[1].val = <<FALSE>>]_vars

\* C13 (as claimed): the above, and a Run whose backend fails ends in its first
\* step with that failure recorded in Memory, the state ERROR and the model's
\* error returned.
C13_FailedThinkAbortsRun ==
    /\ C13_FailedThinkRecordsFailure
    /\ [](RunReturned(1) /\ backend = "fails" /\ MaxSteps >= 1 =>
            /\ ret[1].err = "LLMError"
            /\ State = AgentStateERROR
            /\ CurrentStep = 1
            /\ Len(Messages) > 0
            /\ Messages[Len(Messages)] = FailureMessage)

\* --------------------------------------------------- claims on Act's batch
\* C14: Act executes the pending calls one at a time in the proposed order and
\* appends one tool message per call, keyed by the call's id, in that order: the
\* log is execute 1, append 1, execute 2, append 2, ..., so a call is executed only
\* after the message of the call before it was appended, and Memory ends with the
\* batch's messages in order (as many of them as it retains).
C14_CallsRunInOrder ==
    [][ActDispatched =>
          LET n == Len(ToolCalls)
          IN  /\ Len(actLog') = 2 * n
              /\ \A k \in 1..n :
                    LET msg == AppendedAt(actLog', k).msg
                        slot == MemorySlot(k, n, Len(Messages'))
                    IN  /\ ExecutedAt(actLog', k).ev = "execute"
                        /\ ExecutedAt(actLog', k).id = ToolCalls[k].ID
                        /\ AppendedAt(actLog', k).ev = "append"
                        /\ AppendedAt(actLog', k).id = ToolCalls[k].ID
                        /\ msg.Role = RoleTool
                        /\ msg.ToolCallID = <<ToolCalls[k].ID>>
                        /\ msg.Name = <<ToolCalls[k].Name>>
                        /\ msg.Content = <<ExecutedAt(actLog', k).result>>
                        /\ slot >= 1 => Messages'[slot] = msg]_vars

\* C14 witness: Act has gone through a batch of two calls, and Memory ends with
\* their two tool messages in the proposed order.
C14_Witness ==
    /\ ret[1].op = "Act"
    /\ Len(ToolCalls) = 2
    /\ Len(actLog) = 4
    /\ Len(Messages) >= 2
    /\ Messages[Len(Messages) - 1].ToolCallID = <<ToolCalls[1].ID>>
    /\ Messages[Len(Messages)].ToolCallID = <<ToolCalls[2].ID>>
    /\ ToolCalls[1].ID # ToolCalls[2].ID

\* The results Act collected, read off the log.
LoggedResults(log) == [k \in 1..(Len(log) \div 2) |-> ExecutedAt(log, k).result]

\* The number of per-call results in Act's return value.
ResultCount(val) == Cardinality({j \in 1..Len(val) : val[j] = "\n\n"}) + 1

\* C15: when a special-tool call of the batch has set the state to FINISHED, every
\* call of the batch, the ones after it included, is executed and its message
\* appended all the same; Act's return value holds one result per proposed call.
C15_BatchCompletesAfterFinish ==
    [][(ActDispatched /\ BatchHasSpecial /\ State' = AgentStateFINISHED) =>
          LET n == Len(ToolCalls)
          IN  /\ \A k \in 1..n :
                    /\ \E j \in 1..Len(actLog') :
                          actLog'[j].ev = "execute" /\ actLog'[j].id = ToolCalls[k].ID
                    /\ \E j \in 1..Len(actLog') :
                          actLog'[j].ev = "append" /\ actLog'[j].id = ToolCalls[k].ID
              /\ Messages'[Len(Messages')].ToolCallID = <<ToolCalls[n].ID>>
              /\ ret'[1].val = JoinBlank(LoggedResults(actLog'))
              /\ ResultCount(ret'[1].val) = n]_vars

\* C15 witness: the batch's first call was the termination tool, the state is
\* FINISHED, and the second call was executed and its message is the newest.
C15_Witness ==
    /\ ret[1].op = "Act"
    /\ State = AgentStateFINISHED
    /\ Len(ToolCalls) = 2
    /\ isSpecialTool(ToolCalls[1].Name)
    /\ ~isSpecialTool(ToolCalls[2].Name)
    /\ \E j \in 1..Len(actLog) : actLog[j].ev = "execute" /\ actLog[j].id = ToolCalls[2].ID
    /\ Messages[Len(Messages)].ToolCallID = <<ToolCalls[2].ID>>
    /\ ResultCount(ret[1].val) = 2

\* The k-th call of the batch was executed successfully: its observation is not an
\* error text.
Succeeded(log, k) == ~IsErrorText(ExecutedAt(log, k).result)

\* C16 (as claimed): Act makes the state FINISHED only when a special-tool call of
\* the batch was executed successfully; when every special-tool call of the batch
\* failed, the state is left as it was.
C16_FinishOnlyOnSuccessfulSpecialTool ==
    [][ActDispatched =>
          LET n == Len(ToolCalls)
              finishing == {k \in 1..n : /\ isSpecialTool(ToolCalls[k].Name)
                                         /\ Succeeded(actLog', k)}
          IN  /\ (State' = AgentStateFINISHED /\ State # AgentStateFINISHED) =>
                    finishing # {}
              /\ finishing = {} => State' = State]_vars

\* ------------------------------------------------- claims on Run's outcome
\* C17 (as claimed): when the backend proposes the termination tool at the first
\* consultation, a Run with MaxSteps >= 1 ends after a single step, without error,
\* with the state FINISHED and exactly one step line in its result.
C17_TerminateEndsRunInOneStep ==
    (RunReturned(1) /\ backend = "terminates" /\ MaxSteps >= 1) =>
        /\ ret[1].err = "nil"
        /\ State = AgentStateFINISHED
        /\ CurrentStep = 1
        /\ StepLines(ret[1].val) = 1

\* C18 (as claimed): when the backend never proposes a tool call and never fails
\* (and tool calls are not required), Run executes exactly MaxSteps steps and
\* returns without error with the state still RUNNING; its result has MaxSteps
\* step lines and ends by noting the exhaustion of the step budget.
C18_SilentModelExhaustsBudget ==
    (RunReturned(1) /\ backend = "silent" /\ ToolChoices # "required") =>
        /\ ret[1].err = "nil"
        /\ State = AgentStateRUNNING
        /\ CurrentStep = MaxSteps
        /\ StepLines(ret[1].val) = MaxSteps
        /\ EndsWithExhaustionNote(ret[1].val)

\* C19 (as claimed): the result of a Run ends with the exhaustion note iff the
\* loop was left because the step count had reached MaxSteps while the state was
\* not FINISHED; a Run that reached FINISHED carries no exhaustion note.
C19_ExhaustionNoteOnlyWhenNotFinished ==
    [][\A t \in Threads :
          (pc[t] = "finish" /\ pc'[t] = "idle") =>
              (EndsWithExhaustionNote(ret'[t].val) <=>
                  (CurrentStep >= MaxSteps /\ State # AgentStateFINISHED))]_vars

\* ------------------------------------------------- claims on the plan store
\* C20 (as claimed): for a plan in the tool and a valid step index i, after the
\* Planning Flow's mark of step i as completed with result r, the plan reloaded
\* from the store has step i completed with result r and every other step as it
\* was before the mark.
C20_FlowMarkSurvivesReload ==
    [][\A i \in 0..(MaxPlanSteps - 1), r \in FlowResults :
          (/\ activePlan \in DOMAIN plans
           /\ i < Len(plans[activePlan].Steps)
           /\ PlanningTool_Execute(executeStep_resultArgs(i, PlanStepCompleted, r))) =>
              LET before == plans[activePlan]
                  reloaded == loadPlans(files')
              IN  /\ activePlan \in DOMAIN reloaded
                  /\ Len(reloaded[activePlan].Steps) = Len(before.Steps)
                  /\ reloaded[activePlan].Steps[i + 1].Status = PlanStepCompleted
                  /\ reloaded[activePlan].Steps[i + 1].Result = r
                  /\ \A j \in 1..Len(before.Steps) :
                        j # i + 1 => reloaded[activePlan].Steps[j] = before.Steps[j]]_vars

\* The plans whose file sits directly in storageDir mirror their records: the
\* half of C21 that holds.
FlatPlansMirrorStore ==
    \A id \in PlanIDs :
        /\ id \in DOMAIN plans <=> id \in DOMAIN files
        /\ id \in DOMAIN plans => UnmarshalPlan(files[id]) = plans[id]

\* C21 (as claimed): between operations the store mirrors the tool: every plan
\* in memory has a persisted record equal to it (after each successful create,
\* update or markStep), no record remains for a deleted plan, and so reloading
\* the store reproduces the in-memory set of plans.
C21_ReloadReproducesPlans == plans = loadPlans(files)

\* ------------------------------------------------- claims: flow.PlanningFlow
\* Execute is running: it has been called and has not returned.
FlowExecuting == flowPc # "idle"

\* The steps of the tool's active plan (none when no plan is active).
ActiveSteps ==
    IF GetActivePlan(plans, activePlan) = <<>> THEN <<>> ELSE plans[activePlan].Steps
ActiveStepsAfter ==
    IF GetActivePlan(plans', activePlan') = <<>> THEN <<>> ELSE plans'[activePlan'].Steps

\* executor.Run has returned to executeStep, with an error or with a result.
RunFailedInFlow == FlowEndStep /\ ret[2].err # "nil"
RunSucceededInFlow == FlowEndStep /\ ret[2].err = "nil"

\* C22: at every point of a Planning Flow execution at most one step of the
\* active plan has status InProgress.
C22_AtMostOneStepInProgress ==
    FlowExecuting =>
        Cardinality({i \in 1..Len(ActiveSteps) :
                        ActiveSteps[i].Status = PlanStepInProgress}) <= 1

\* C22 witness: the flow has made executeStep's in-progress call for a step of
\* the active plan and the executor's Run is in flight.
C22_Witness ==
    /\ flowPc = "run"
    /\ pc[2] # "idle"
    /\ Len(ActiveSteps) > 1
    /\ flowStepIndex \in 0..(Len(ActiveSteps) - 1)

\* C23 (as claimed): when executor.Run fails on a plan step, the step ends
\* Blocked with the error text as its result, the flow returns without starting
\* another step, and every step completed earlier keeps its status and result.
C23_FailedRunBlocksStep ==
    [][RunFailedInFlow =>
          /\ flowStepIndex + 1 \in 1..Len(ActiveStepsAfter)
          /\ ActiveStepsAfter[flowStepIndex + 1].Status = PlanStepBlocked
          /\ ActiveStepsAfter[flowStepIndex + 1].Result
                = "Error: " \o ErrorText(ret[2].err, State)
          /\ flowPc' = "idle"
          /\ started' = started
          /\ \A j \in 1..Len(ActiveSteps) :
                ActiveSteps[j].Status = PlanStepCompleted =>
                    ActiveStepsAfter[j] = ActiveSteps[j]]_vars

\* The part of C23 that holds: a failed Run ends the flow, which returns the
\* failure line with a nil error and starts no other step.
FailedRunStopsFlow ==
    [][RunFailedInFlow =>
          /\ flowPc' = "idle"
          /\ started' = started
          /\ flowRet'.err = "nil"
          /\ ActiveStepsAfter = ActiveSteps]_vars

\* C24 (as claimed): when executor.Run succeeds on a plan step, the step was
\* InProgress from before the Run started, and it is Completed with the Run's
\* result text as its result before the flow selects the next step.
C24_SucceededRunCompletesStep ==
    [][RunSucceededInFlow =>
          /\ ActiveSteps[flowStepIndex + 1].Status = PlanStepInProgress
          /\ ActiveStepsAfter[flowStepIndex + 1].Status = PlanStepCompleted
          /\ ActiveStepsAfter[flowStepIndex + 1].Result = RunText(ret[2].val)]_vars

\* C25 (as claimed): the flow runs steps strictly in plan order: a step is
\* started only when every earlier step is Completed, no step is handed to an
\* executor more than once in one execution, and no step after a Blocked step
\* is started.
C25_StepsRunOnceInPlanOrder ==
    /\ [](\A k \in 1..Len(started), l \in 1..Len(started) :
            k < l => started[k] < started[l])
    /\ [][started' # started /\ started' # <<>> =>
            \A j \in 1..flowStepIndex' :
                ActiveSteps[j].Status = PlanStepCompleted]_vars

\* C26 (as claimed): after a successful step, if the executor's state is
\* Finished the flow stops at once: Execute returns, no remaining step is
\* started, and the steps not yet run keep status NotStarted.
C26_FinishedExecutorStopsFlow ==
    [][RunSucceededInFlow /\ State = AgentStateFINISHED =>
          /\ flowPc' = "idle"
          /\ flowRet'.err = "nil"
          /\ started' = started
          /\ \A j \in 1..Len(ActiveSteps) :
                (j - 1) \notin {started[k] : k \in 1..Len(started)} =>
                    ActiveStepsAfter[j].Status = PlanStepNotStarted]_vars

\* ------------------------------------------------- claims on cancellation
\* A tool invocation cancelled in flight: the tool's Execute returns ctx.Err(),
\* an execution error. A model call cancelled in flight: AskTool returns the
\* error, as for any failed call.
CancelledInvocation(toolCall, outcome) == ExecutionFails(toolCall, outcome)
CancelledModelCall == thinkCount' = thinkCount + 1 /\ ret'[1].err = "LLMError"

\* The part of C27 that holds: a Think whose model call is cancelled returns the
\* error, and what it had appended to Memory (the next-step prompt, the failure
\* message) stays there.
CancelledThinkFails ==
    [][CancelledModelCall =>
          /\ ret'[1].val = <<FALSE>>
          /\ Messages'[Len(Messages')] = FailureMessage
          /\ NextStepPrompt # <<>> /\ MaxMessages >= 2 =>
                Messages'[Len(Messages') - 1] = NewUserMessage(NextStepPrompt)]_vars

\* C27 (as claimed): when the cancellation signal fires while a model call or a
\* tool invocation is in flight, the current step fails with the error: a Think
\* whose model call is cancelled returns it, and so does an Act one of whose
\* tool invocations is cancelled; the messages appended so far stay in Memory.
C27_CancellationFailsStep ==
    [][/\ CancelledModelCall => ret'[1].val = <<FALSE>>
       /\ (/\ ActDispatched
           /\ \E k \in 1..Len(ToolCalls) :
                 CancelledInvocation(ToolCalls[k], ExecutedAt(actLog', k).outcome)) =>
               ret'[1].err # "nil"]_vars

\* ------------------------------------------ claims on the tool-choice policy
\* Goroutine 1's step is a Think whose model call succeeded.
ThinkSucceeded == thinkCount' = thinkCount + 1 /\ ret'[1].err = "nil"

\* The assistant message a successful Think has just appended, which holds the
\* model's content and its proposed calls.
ThoughtAfter == Messages'[Len(Messages')]
ThoughtHasContent(msg) == msg.Content # <<>> /\ msg.Content[1] # <<>>

\* C28: after a successful model call Think returns, under policy none, true iff
\* the content is non-empty; under policy required, true; under policy auto,
\* true iff a call was proposed or the content is non-empty.
C28_ThinkReturnFollowsPolicy ==
    [][ThinkSucceeded =>
          LET proposed == Len(ThoughtAfter.ToolCalls) > 0
              hasContent == ThoughtHasContent(ThoughtAfter)
          IN  /\ ThoughtAfter.Role = RoleAssistant
              /\ ToolChoices = "none" => ret'[1].val = <<hasContent>>
              /\ ToolChoices = "required" => ret'[1].val = <<TRUE>>
              /\ ToolChoices = "auto" => ret'[1].val = <<proposed \/ hasContent>>]_vars

\* C28 witness: under policy none a Think whose model proposed calls without
\* content has returned false.
C28_Witness ==
    /\ ret[1].op = "Think"
    /\ ret[1].err = "nil"
    /\ ret[1].val = <<FALSE>>
    /\ ToolChoices = "none"
    /\ Len(ToolCalls) > 0
    /\ ~ThoughtHasContent(Messages[Len(Messages)])

\* C29 (as claimed): under policy none no tool is ever executed, no tool-role
\* message is ever appended to Memory, and the state does not become FINISHED,
\* whatever calls the model proposes.
C29_PolicyNoneExecutesNothing ==
    ToolChoices = "none" =>
        /\ actLog = <<>>
        /\ \A j \in 1..Len(Messages) : Messages[j].Role # RoleTool
        /\ State # AgentStateFINISHED

\* The part of C29 that holds: under policy none, calls proposed without content
\* are never executed, since Think then returns false and Act is not called.
PolicyNoneNeedsContentToAct ==
    [][(ToolChoices = "none" /\ ActDispatched) =>
          \E j \in 1..Len(Messages) :
              /\ Messages[j].Role = RoleAssistant
              /\ Messages[j].ToolCalls = ToolCalls
              /\ ThoughtHasContent(Messages[j])]_vars

\* The marker Act returns when there is nothing to execute and nothing to report.
NothingToExecute == <<"No content or commands to execute">>

\* C30: Act with no pending tool calls fails with the missing-calls error under
\* policy required; under any other policy it returns without error the content
\* of the most recent Memory message, or the marker when there is none. Either
\* way it executes nothing and leaves Memory and the state as they were.
C30_ActWithoutPendingCalls ==
    [][(ActDirect /\ Len(ToolCalls) = 0) =>
          /\ ret'[1].op = "Act"
          /\ actLog' = <<>>
          /\ Messages' = Messages
          /\ State' = State
          /\ ToolChoices = "required" => ret'[1].err = "ToolCallsRequired"
          /\ ToolChoices # "required" =>
                /\ ret'[1].err = "nil"
                /\ ret'[1].val =
                      IF Messages # <<>> /\ Messages[Len(Messages)].Content # <<>>
                      THEN Messages[Len(Messages)].Content[1]
                      ELSE NothingToExecute]_vars

\* C30 witness: under policy required an Act with no pending calls has returned
\* the missing-calls error, with a message in Memory it could have reported.
C30_Witness ==
    /\ ToolChoices = "required"
    /\ ToolCalls = <<>>
    /\ ret[1] = [op |-> "Act", err |-> "ToolCallsRequired", val |-> <<>>]
    /\ Messages # <<>>
    /\ Messages[Len(Messages)].Content # <<>>

\* The marker is returned for an empty Memory and for a last message without
\* content, under a policy other than required.
MarkerReturned ==
    /\ ToolChoices # "required"
    /\ ret[1].op = "Act"
    /\ ret[1].val = NothingToExecute
    /\ Messages # <<>>
    /\ Messages[Len(Messages)].Content = <<>>

\* ------------------------------------------------ claims on Run's lifetime
\* The result of a Run that found nothing to report.
NoStepsExecuted == <<ResultLine("No steps executed", 0, <<>>)>>

\* C31 (as claimed): a Run that returns without having executed a step (for
\* example with MaxSteps = 0) returns the "No steps executed" marker as its whole
\* result.
C31_NoStepMeansMarker ==
    (RunReturned(1) /\ ret[1].err = "nil" /\ StepLines(ret[1].val) = 0) =>
        ret[1].val = NoStepsExecuted

\* ------------------------------------------------- claims on the mutex
\* The part of C32 that holds: Run appends the request only when no reader holds
\* the lock (UpdateMemory takes the write lock), and the write lock is released
\* within UpdateMemory, before any model call or tool invocation.
RunAppendsUnderTheMutex ==
    [][\A t \in Threads :
          (pc[t] = "append" /\ pc'[t] # "append" /\ Messages' # Messages) => mu = {}]_vars

\* C32 (as claimed): every append to the agent's Memory, by Run, Think or Act,
\* is made holding the agent's mutex, so Memory does not change while a
\* goroutine holds the read lock in IsStuck or GetMessages.
C32_NoAppendUnderReadLock == [][mu # {} => Messages' = Messages]_vars

\* ------------------------------------------- claims on the flow's own plan
\* The part of C33 that holds: after createInitialPlan the plan under the
\* generated id is active and its steps are the template, none of them started.
InitialPlanHasTemplateSteps ==
    [][FlowSetActive =>
          /\ activePlan' = flowPlanID
          /\ activePlanID' = flowPlanID
          /\ plans'[activePlan'].Steps = NewSteps(InitialSteps)]_vars

\* C33 (as claimed): after createInitialPlan the active plan is a plan this
\* Execute has just created for its request, with exactly the template steps,
\* all NotStarted, also over a store that already holds the generated id and on
\* a second Execute.
C33_InitialPlanIsNew ==
    [][FlowSetActive =>
          /\ planRet.op = "create"
          /\ planRet.Error = <<>>
          /\ activePlan' = flowPlanID
          /\ \E inputText \in InputTexts :
                plans'[activePlan'] =
                    Plan(flowPlanID, "Plan for: " \o inputText, NewSteps(InitialSteps))]_vars

\* ------------------------------------------- claims on the stuck detector
\* Goroutine t's step is the loop body of Run from a.Step on, over a Memory the
\* stuck detector answers true for.
StepOverStuckMemory(t) ==
    /\ pc[t] = "step"
    /\ pc'[t] # "step"
    /\ IsStuck(Messages', DuplicateThreshold)

\* C34 (as claimed): when the stuck detector triggers after a step of Run, the
\* corrective sentence is prepended to NextStepPrompt and nothing else happens:
\* State, CurrentStep and Memory stay as they are and the loop goes on (so the
\* detector can fire again after the next step).
C34_StuckOnlyNudges ==
    [][\A t \in Threads :
          StepOverStuckMemory(t) =>
              /\ NextStepPrompt' = HandleStuckState(NextStepPrompt)
              /\ State' = State
              /\ CurrentStep' = CurrentStep
              /\ Messages' = Messages
              /\ pc'[t] = "loop"]_vars

\* ------------------------------------------- claims on the agent's lifetime
\* Goroutine t's step is an admission into Run.
RunAdmitted(t) == RunCalled(t) /\ pc'[t] # "idle"

\* C35: an agent admits at most one Run: a Run is admitted only while State is
\* IDLE; an admitted Run has left IDLE before its loop and when it returns,
\* whichever way it ends; State never returns to IDLE and CurrentStep never goes
\* down; and a Run called when State is not IDLE gets the invalid-state error.
C35_OneRunPerInstance ==
    /\ [][\A t \in Threads : RunAdmitted(t) => State = AgentStateIDLE /\ CurrentStep = 0]_vars
    /\ [](\A t \in Threads :
            (pc[t] \in {"loop", "incr", "step", "finish"} \/ RunReturned(t)) =>
                State # AgentStateIDLE)
    /\ [][State # AgentStateIDLE => State' # AgentStateIDLE]_vars
    /\ [][CurrentStep' >= CurrentStep]_vars
    /\ [][\A t \in Threads :
            (RunCalled(t) /\ State # AgentStateIDLE) =>
                pc'[t] = "idle" /\ ret'[t].err = "InvalidState"]_vars

\* C35 witness: the first Run ended by exhaustion with the state RUNNING and a
\* later Run on the agent was rejected.
C35_Witness ==
    /\ pc[1] = "idle"
    /\ ret[1].op = "Run"
    /\ ret[1].err = "InvalidState"
    /\ State = AgentStateRUNNING

\* ------------------------------------------- claims on the flow's executor
\* The steps of the active plan that are Completed.
CompletedSteps ==
    {j \in 1..Len(ActiveSteps) : ActiveSteps[j].Status = PlanStepCompleted}

\* The flow's step is the finalization of its plan.
FlowFinalizes == FlowSelect /\ getCurrentStepInfo(plans, activePlan) = 0 - 1

\* C36: with a single primary executor, at most one step of the flow's plan is
\* ever Completed; the second and every later Run the flow makes on the
\* executor in one execution is rejected with the invalid-state error, the step
\* it was made for is not Completed, and the flow never finalizes a plan whose
\* steps are all Completed.
C36_ExecutorCompletesAtMostOneStep ==
    /\ [](Cardinality(CompletedSteps) <= 1)
    /\ [][(FlowRunEnter /\ Len(started) >= 2) =>
            pc'[2] = "idle" /\ ret'[2].err = "InvalidState"]_vars
    /\ [][(FlowEndStep /\ ret[2].err = "InvalidState") =>
            /\ ActiveStepsAfter[flowStepIndex + 1].Status # PlanStepCompleted
            /\ flowPc' = "idle"]_vars
    /\ [][FlowFinalizes => CompletedSteps # 1..Len(InitialSteps)]_vars

\* C36 witness: in one execution the flow called Run on its executor a second
\* time, the call was rejected and the flow has returned.
C36_Witness ==
    /\ Len(started) = 2
    /\ flowPc = "idle"
    /\ ret[2].op = "Run"
    /\ ret[2].err = "InvalidState"
    /\ CompletedSteps = {}

\* ------------------------------------------- claims on the flow's termination
\* An Execute that was called returns.
ExecuteTerminates == FlowExecuting ~> ~FlowExecuting

\* One iteration of Execute's loop ends: the step's Run has returned and the
\* loop body is run to its end.
IterationEnds == FlowEndStep

\* C37 (as claimed): Execute always terminates, each iteration of its loop
\* either stopping the flow or leaving the selected step with a status other
\* than NotStarted and InProgress, so that the step is not selected again.
C37_ExecuteTerminatesByProgress ==
    /\ ExecuteTerminates
    /\ [][IterationEnds =>
            \/ flowPc' = "idle"
            \/ ActiveStepsAfter[flowStepIndex + 1].Status
                    \notin {PlanStepNotStarted, PlanStepInProgress}]_vars
    /\ [](\A k \in 1..Len(started), l \in 1..Len(started) :
            k # l => started[k] # started[l])

\* ------------------------------------------- claims on the flow's return
\* Execute has returned to its caller.
ExecuteReturned == flowPc = "idle" /\ flowRet.op = "Execute"

\* C38: once plan creation has returned no error, Execute returns a nil error,
\* whether the plan was finalized, a step failed or no executor was available;
\* a failure shows only in the returned text.
C38_ExecuteReturnsNilError ==
    /\ [](ExecuteReturned => flowRet.err = "nil" /\ flowRet.val = flowResult)
    /\ [][(FlowExecuting /\ flowPc' = "idle") => flowRet'.err = "nil"]_vars
    /\ [][RunFailedInFlow =>
            flowRet'.val = flowResult \o "Step " \o ToString(flowStepIndex) \o " failed: "
                              \o ErrorText(ret[2].err, State) \o "\n"]_vars
    /\ [][(FlowSelect /\ ~getExecutor(primaryAgentKey)) =>
            /\ flowPc' = "idle"
            /\ flowRet'.val = flowResult \o "Step " \o ToString(flowStepIndex')
                                 \o ": No executor available for type default\n"]_vars

\* C38 witness: Execute returned a nil error and a text that reports the failure
\* of step 0.
C38_Witness ==
    /\ ExecuteReturned
    /\ flowRet.err = "nil"
    /\ flowRet.val = "Step 0 failed: " \o ErrorText("StepNotImplemented", AgentStateERROR) \o "\n"

\* ------------------------------------------- claims on the active-plan pointer
\* C39: whatever commands the planning tool has executed, its active-plan
\* pointer is empty or the id of a plan in the plan map.
C39_ActivePlanIsPresent == activePlan = "" \/ activePlan \in DOMAIN plans

\* C39 witness: a delete has removed a plan while another plan, still in the
\* map, is the active one.
C39_Witness ==
    /\ planRet.op = "delete"
    /\ planRet.Error = <<>>
    /\ activePlan # ""
    /\ activePlan \in DOMAIN plans

====
